---- MODULE Spec2Model ----
(***************************************************************************)
(* A model of subdiff's diff-to-unified-output pipeline: the hunk buffer,  *)
(* the hunk state machine (hunked.rs), the line-level renderer and the     *)
(* intra-line renderers (wdiff.rs), driven by diff_files (main.rs).        *)
(*                                                                         *)
(* Bytes are one-character strings, byte vectors are sequences of them;    *)
(* Option<T> is a sequence of length 0 (None) or 1 (Some).                 *)
(***************************************************************************)
EXTENDS Integers, Sequences, FiniteSets, TLC

\* Longest edit sequence handed to the line-level state machine.
MaxLen == 5
\* Largest value of conf.context for a line-level comparison.
MaxContext == 2
\* Longest edit sequence of a comparison under a selector (SpecSel).
MaxSelLen == 3
\* Longest byte-level edit sequence handed to the intra-line renderers.
MaxAtoms == 4
\* Longest line, its newline aside, handed to tokenize and to the selector.
MaxLine == 3
\* Most character classes merged in one call sequence.
MaxMerged == 3

\* std::usize::MAX: only ever compared with queue lengths and counters, so
\* any value above every reachable length behaves as the real one does.
usize_MAX == 2147483647

None == <<>>
Some(x) == <<x>>
is_some(o) == Len(o) = 1
unwrap(o) == o[1]

NL == "\n"

RECURSIVE Flatten(_)
Flatten(ss) == IF ss = <<>> THEN <<>> ELSE Head(ss) \o Flatten(Tail(ss))

Last(s) == s[Len(s)]

Digits == <<"0", "1", "2", "3", "4", "5", "6", "7", "8", "9">>

\* write!(out, "{}", n) for a usize: the decimal digits of n.
RECURSIVE fmt_usize(_)
fmt_usize(n) ==
    IF n < 10 THEN <<Digits[n + 1]>>
    ELSE fmt_usize(n \div 10) \o <<Digits[(n % 10) + 1]>>

(***************************************************************************)
(* Edit records (lcs_diff::DiffResult) and file offsets                    *)
(***************************************************************************)
Added(data, n) ==
    [kind |-> "Added", data |-> data, old_index |-> None, new_index |-> Some(n)]
Removed(data, o) ==
    [kind |-> "Removed", data |-> data, old_index |-> Some(o), new_index |-> None]
Common(data, o, n) ==
    [kind |-> "Common", data |-> data, old_index |-> Some(o), new_index |-> Some(n)]

is_common(d) == d.kind = "Common"

exist_differences_NonEmpty(results) == results # <<>>

exist_differences(results) ==
    \E i \in 1..Len(results) : results[i].kind # "Common"

diff_offsets(d) == <<d.old_index, d.new_index>>

observe(offsets, d) ==
    CASE d.kind = "Common" ->
           [old_off |-> offsets.old_off + 1, new_off |-> offsets.new_off + 1]
      [] d.kind = "Added" ->
           [old_off |-> offsets.old_off, new_off |-> offsets.new_off + 1]
      [] d.kind = "Removed" ->
           [old_off |-> offsets.old_off + 1, new_off |-> offsets.new_off]

\* The assert_eq!s of update_indices.
update_indices_ok(d, offsets) ==
    CASE d.kind = "Added" -> d.new_index = Some(offsets.new_off)
      [] d.kind = "Removed" -> d.old_index = Some(offsets.old_off)
      [] d.kind = "Common" ->
           /\ d.old_index = Some(offsets.old_off)
           /\ d.new_index = Some(offsets.new_off)

update_indices_Swapped(d, offsets) ==
    CASE d.kind = "Added" -> [d EXCEPT !.old_index = Some(offsets.new_off)]
      [] d.kind = "Removed" -> [d EXCEPT !.new_index = Some(offsets.old_off)]
      [] d.kind = "Common" -> d

update_indices(d, offsets) ==
    CASE d.kind = "Added" -> [d EXCEPT !.old_index = Some(offsets.old_off)]
      [] d.kind = "Removed" -> [d EXCEPT !.new_index = Some(offsets.new_off)]
      [] d.kind = "Common" -> d

(***************************************************************************)
(* Hunk                                                                    *)
(***************************************************************************)
Hunk_initial ==
    [old_start |-> 0, old_len |-> 0, new_start |-> 0, new_len |-> 0,
     items |-> <<>>]

\* Hunk::from_diff panics unless both indices are present; every record
\* comes out of update_indices with both, so the value below is defined.
Hunk_from_diff_ok(d) == is_some(d.old_index) /\ is_some(d.new_index)

Hunk_from_diff(d) ==
    [old_start |-> unwrap(diff_offsets(d)[1]), old_len |-> 0,
     new_start |-> unwrap(diff_offsets(d)[2]), new_len |-> 0,
     items |-> <<>>]

Hunk_append_BadLen(h, d) ==
    LET counted ==
          CASE d.kind = "Common" ->
                 [h EXCEPT !.old_len = @ + 1]
            [] d.kind = "Removed" -> [h EXCEPT !.old_len = @ + 1]
            [] d.kind = "Added" -> [h EXCEPT !.new_len = @ + 1]
    IN  [counted EXCEPT !.items = Append(@, d)]

Hunk_append_NoMin(h, d) ==
    LET counted ==
          CASE d.kind = "Common" ->
                 [h EXCEPT !.old_len = @ + 1, !.new_len = @ + 1]
            [] d.kind = "Removed" -> [h EXCEPT !.old_len = @ + 1]
            [] d.kind = "Added" -> [h EXCEPT !.new_len = @ + 1]
    IN  [counted EXCEPT !.items = Append(@, d)]

Hunk_append(h, d) ==
    LET counted ==
          CASE d.kind = "Common" ->
                 [h EXCEPT !.old_len = @ + 1, !.new_len = @ + 1]
            [] d.kind = "Removed" -> [h EXCEPT !.old_len = @ + 1]
            [] d.kind = "Added" -> [h EXCEPT !.new_len = @ + 1]
        old_off == diff_offsets(d)[1]
        new_off == diff_offsets(d)[2]
        o_min == IF is_some(old_off) /\ unwrap(old_off) < counted.old_start
                 THEN [counted EXCEPT !.old_start = unwrap(old_off)]
                 ELSE counted
        n_min == IF is_some(new_off) /\ unwrap(new_off) < o_min.new_start
                 THEN [o_min EXCEPT !.new_start = unwrap(new_off)]
                 ELSE o_min
    IN  [n_min EXCEPT !.items = Append(@, d)]

\* hunk is an Option<Hunk>: get_or_insert_with(from_diff), then Hunk::append.
append(hunk, d) ==
    LET h == IF is_some(hunk) THEN unwrap(hunk) ELSE Hunk_from_diff(d)
    IN  Some(Hunk_append(h, d))

RECURSIVE consume_Reversed(_, _)
consume_Reversed(hunk, ds) ==
    IF ds = <<>> THEN hunk
    ELSE consume_Reversed(append(hunk, ds[Len(ds)]), SubSeq(ds, 1, Len(ds) - 1))

RECURSIVE consume(_, _)
consume(hunk, ds) ==
    IF ds = <<>> THEN hunk ELSE consume(append(hunk, Head(ds)), Tail(ds))

(***************************************************************************)
(* The hunk state machine.  A State is a record; the fields a variant does *)
(* not carry are left at their empty value.  A step yields the next state  *)
(* and the hunks it handed to dump_hunk (dump_hunk(None) writes nothing,   *)
(* so the Option it was given is exactly the sequence of hunks written).   *)
(***************************************************************************)
CollectingAdds(hunk, adds) ==
    [tag |-> "CollectingAdds", hunk |-> hunk, seen |-> 0,
     commons |-> <<>>, adds |-> adds]
CollectingCommonsTail(hunk, seen, commons) ==
    [tag |-> "CollectingCommonsTail", hunk |-> hunk, seen |-> seen,
     commons |-> commons, adds |-> <<>>]
CollectingCommonsCorked(hunk, commons) ==
    [tag |-> "CollectingCommonsCorked", hunk |-> hunk, seen |-> 0,
     commons |-> commons, adds |-> <<>>]
SequentialRemoves(hunk, adds) ==
    [tag |-> "SequentialRemoves", hunk |-> hunk, seen |-> 0,
     commons |-> <<>>, adds |-> adds]

Stepped(state, dumped) == [state |-> state, dumped |-> dumped]

setup_initial_state_HunkForCommon(d) ==
    CASE d.kind = "Common" ->
           CollectingCommonsTail(Some(Hunk_initial), 1, <<d>>)
      [] d.kind = "Added" -> CollectingAdds(Some(Hunk_initial), <<d>>)
      [] d.kind = "Removed" ->
           SequentialRemoves(Some(Hunk_append(Hunk_initial, d)), <<>>)

setup_initial_state(d) ==
    CASE d.kind = "Common" -> CollectingCommonsTail(None, 1, <<d>>)
      [] d.kind = "Added" -> CollectingAdds(Some(Hunk_initial), <<d>>)
      [] d.kind = "Removed" ->
           SequentialRemoves(Some(Hunk_append(Hunk_initial, d)), <<>>)

handle_final_state_LeaveAdds(state) ==
    CASE state.tag = "CollectingAdds" -> state.hunk
      [] state.tag = "CollectingCommonsTail" -> state.hunk
      [] state.tag = "CollectingCommonsCorked" ->
           consume(state.hunk, state.commons)
      [] state.tag = "SequentialRemoves" -> state.hunk

handle_final_state_DropCorked(state) ==
    CASE state.tag = "CollectingAdds" -> consume(state.hunk, state.adds)
      [] state.tag = "CollectingCommonsTail" -> state.hunk
      [] state.tag = "CollectingCommonsCorked" -> state.hunk
      [] state.tag = "SequentialRemoves" -> consume(state.hunk, state.adds)

handle_final_state(state) ==
    CASE state.tag = "CollectingAdds" -> consume(state.hunk, state.adds)
      [] state.tag = "CollectingCommonsTail" -> state.hunk
      [] state.tag = "CollectingCommonsCorked" ->
           consume(state.hunk, state.commons)
      [] state.tag = "SequentialRemoves" -> consume(state.hunk, state.adds)

fsm_CollectingAdds_NoHold(state, d) ==
    CASE d.kind = "Added" ->
           Stepped(CollectingAdds(state.hunk, Append(state.adds, d)), <<>>)
      [] d.kind = "Removed" ->
           Stepped(SequentialRemoves(
                       append(consume(state.hunk, state.adds), d), <<>>), <<>>)
      [] d.kind = "Common" ->
           Stepped(CollectingCommonsCorked(consume(state.hunk, state.adds),
                                           <<d>>), <<>>)

fsm_CollectingAdds(state, d) ==
    CASE d.kind = "Added" ->
           Stepped(CollectingAdds(state.hunk, Append(state.adds, d)), <<>>)
      [] d.kind = "Removed" ->
           Stepped(SequentialRemoves(append(state.hunk, d), state.adds), <<>>)
      [] d.kind = "Common" ->
           Stepped(CollectingCommonsCorked(consume(state.hunk, state.adds),
                                           <<d>>), <<>>)

fsm_CollectingCommonsTail_EarlyFlush(conf, state, d) ==
    LET flush == state.seen >= conf.context
        dumped == IF flush THEN state.hunk ELSE <<>>
        hunk == IF flush THEN None ELSE state.hunk
    IN  CASE d.kind = "Added" ->
               Stepped(CollectingAdds(consume(hunk, state.commons), <<d>>),
                       dumped)
          [] d.kind = "Removed" ->
               Stepped(SequentialRemoves(
                           append(consume(hunk, state.commons), d), <<>>),
                       dumped)
          [] d.kind = "Common" ->
               LET pushed == Append(state.commons, d)
                   commons == IF Len(pushed) > conf.context
                              THEN Tail(pushed) ELSE pushed
               IN  Stepped(CollectingCommonsTail(hunk, state.seen + 1, commons),
                           dumped)

fsm_CollectingCommonsTail_KeepHunk(conf, state, d) ==
    LET flush == state.seen > conf.context
        dumped == IF flush THEN state.hunk ELSE <<>>
        hunk == state.hunk
    IN  CASE d.kind = "Added" ->
               Stepped(CollectingAdds(consume(hunk, state.commons), <<d>>),
                       dumped)
          [] d.kind = "Removed" ->
               Stepped(SequentialRemoves(
                           append(consume(hunk, state.commons), d), <<>>),
                       dumped)
          [] d.kind = "Common" ->
               LET pushed == Append(state.commons, d)
                   commons == IF Len(pushed) > conf.context
                              THEN Tail(pushed) ELSE pushed
               IN  Stepped(CollectingCommonsTail(hunk, state.seen + 1, commons),
                           dumped)

fsm_CollectingCommonsTail_NoPop(conf, state, d) ==
    LET flush == state.seen > conf.context
        dumped == IF flush THEN state.hunk ELSE <<>>
        hunk == IF flush THEN None ELSE state.hunk
    IN  CASE d.kind = "Added" ->
               Stepped(CollectingAdds(consume(hunk, state.commons), <<d>>),
                       dumped)
          [] d.kind = "Removed" ->
               Stepped(SequentialRemoves(
                           append(consume(hunk, state.commons), d), <<>>),
                       dumped)
          [] d.kind = "Common" ->
               Stepped(CollectingCommonsTail(hunk, state.seen + 1,
                                             Append(state.commons, d)),
                       dumped)

fsm_CollectingCommonsTail(conf, state, d) ==
    LET flush == state.seen > conf.context
        dumped == IF flush THEN state.hunk ELSE <<>>
        hunk == IF flush THEN None ELSE state.hunk
    IN  CASE d.kind = "Added" ->
               Stepped(CollectingAdds(consume(hunk, state.commons), <<d>>),
                       dumped)
          [] d.kind = "Removed" ->
               Stepped(SequentialRemoves(
                           append(consume(hunk, state.commons), d), <<>>),
                       dumped)
          [] d.kind = "Common" ->
               LET pushed == Append(state.commons, d)
                   commons == IF Len(pushed) > conf.context
                              THEN Tail(pushed) ELSE pushed
               IN  Stepped(CollectingCommonsTail(hunk, state.seen + 1, commons),
                           dumped)

fsm_CollectingCommonsCorked_Extra(conf, state, d) ==
    CASE d.kind = "Added" ->
           Stepped(CollectingAdds(consume(state.hunk, state.commons), <<d>>),
                   <<>>)
      [] d.kind = "Removed" ->
           Stepped(SequentialRemoves(
                       append(consume(state.hunk, state.commons), d), <<>>),
                   <<>>)
      [] d.kind = "Common" ->
           IF Len(state.commons) = conf.context + 1
           THEN Stepped(CollectingCommonsTail(
                            consume(state.hunk, state.commons), 1, <<d>>),
                        <<>>)
           ELSE Stepped(CollectingCommonsCorked(state.hunk,
                                                Append(state.commons, d)),
                        <<>>)

fsm_CollectingCommonsCorked(conf, state, d) ==
    CASE d.kind = "Added" ->
           Stepped(CollectingAdds(consume(state.hunk, state.commons), <<d>>),
                   <<>>)
      [] d.kind = "Removed" ->
           Stepped(SequentialRemoves(
                       append(consume(state.hunk, state.commons), d), <<>>),
                   <<>>)
      [] d.kind = "Common" ->
           IF Len(state.commons) = conf.context
           THEN Stepped(CollectingCommonsTail(
                            consume(state.hunk, state.commons), 1, <<d>>),
                        <<>>)
           ELSE Stepped(CollectingCommonsCorked(state.hunk,
                                                Append(state.commons, d)),
                        <<>>)

fsm_SequentialRemoves_DropAdds(state, d) ==
    CASE d.kind = "Added" ->
           Stepped(CollectingAdds(consume(state.hunk, state.adds), <<d>>), <<>>)
      [] d.kind = "Removed" ->
           Stepped(SequentialRemoves(append(state.hunk, d), state.adds), <<>>)
      [] d.kind = "Common" ->
           Stepped(CollectingCommonsCorked(state.hunk, <<d>>), <<>>)

fsm_SequentialRemoves(state, d) ==
    CASE d.kind = "Added" ->
           Stepped(CollectingAdds(consume(state.hunk, state.adds), <<d>>), <<>>)
      [] d.kind = "Removed" ->
           Stepped(SequentialRemoves(append(state.hunk, d), state.adds), <<>>)
      [] d.kind = "Common" ->
           Stepped(CollectingCommonsCorked(consume(state.hunk, state.adds),
                                           <<d>>), <<>>)

fsm(conf, state, d) ==
    CASE state.tag = "CollectingAdds" -> fsm_CollectingAdds(state, d)
      [] state.tag = "CollectingCommonsTail" ->
           fsm_CollectingCommonsTail(conf, state, d)
      [] state.tag = "CollectingCommonsCorked" ->
           fsm_CollectingCommonsCorked(conf, state, d)
      [] state.tag = "SequentialRemoves" -> fsm_SequentialRemoves(state, d)

setup_initial_state_nocontext_Tail(d) ==
    CASE d.kind = "Common" -> CollectingCommonsTail(None, 1, <<d>>)
      [] d.kind = "Added" -> CollectingAdds(Some(Hunk_from_diff(d)), <<d>>)
      [] d.kind = "Removed" ->
           SequentialRemoves(Some(Hunk_append(Hunk_from_diff(d), d)), <<>>)

setup_initial_state_nocontext(d) ==
    CASE d.kind = "Common" -> SequentialRemoves(None, <<>>)
      [] d.kind = "Added" -> CollectingAdds(Some(Hunk_from_diff(d)), <<d>>)
      [] d.kind = "Removed" ->
           SequentialRemoves(Some(Hunk_append(Hunk_from_diff(d), d)), <<>>)

fsm_nocontext_NoDump(state, d) ==
    CASE d.kind = "Added" /\ state.tag = "CollectingAdds" ->
           Stepped(CollectingAdds(state.hunk, Append(state.adds, d)), <<>>)
      [] d.kind = "Added" /\ state.tag = "SequentialRemoves" ->
           Stepped(CollectingAdds(consume(state.hunk, state.adds), <<d>>), <<>>)
      [] d.kind = "Removed" ->
           Stepped(SequentialRemoves(append(state.hunk, d), state.adds), <<>>)
      [] d.kind = "Common" ->
           Stepped(SequentialRemoves(consume(state.hunk, state.adds), <<>>),
                   <<>>)

\* The CollectingCommons* arm of fsm_nocontext panics.
fsm_nocontext_ok(state) ==
    state.tag \notin {"CollectingCommonsTail", "CollectingCommonsCorked"}

fsm_nocontext(state, d) ==
    CASE state.tag = "CollectingAdds" /\ d.kind = "Added" ->
           Stepped(CollectingAdds(state.hunk, Append(state.adds, d)), <<>>)
      [] state.tag = "CollectingAdds" /\ d.kind = "Removed" ->
           Stepped(SequentialRemoves(append(state.hunk, d), state.adds), <<>>)
      [] state.tag = "CollectingAdds" /\ d.kind = "Common" ->
           Stepped(SequentialRemoves(None, <<>>),
                   consume(state.hunk, state.adds))
      [] state.tag = "SequentialRemoves" /\ d.kind = "Added" ->
           Stepped(CollectingAdds(consume(state.hunk, state.adds), <<d>>), <<>>)
      [] state.tag = "SequentialRemoves" /\ d.kind = "Removed" ->
           Stepped(SequentialRemoves(append(state.hunk, d), state.adds), <<>>)
      [] state.tag = "SequentialRemoves" /\ d.kind = "Common" ->
           Stepped(SequentialRemoves(None, <<>>),
                   consume(state.hunk, state.adds))

(***************************************************************************)
(* display_diff_hunked as a function: the hunks handed to dump_hunk, in    *)
(* order, for a whole edit sequence (used for the nested byte-level call;  *)
(* the line-level call is stepped by the actions below).                   *)
(***************************************************************************)
first_state(conf, d) ==
    IF conf.context > 0 THEN setup_initial_state(d)
    ELSE setup_initial_state_nocontext(d)

next_state_ok(conf, state) == conf.context > 0 \/ fsm_nocontext_ok(state)

next_state(conf, state, d) ==
    IF conf.context > 0 THEN fsm(conf, state, d) ELSE fsm_nocontext(state, d)

RECURSIVE run_fsm(_, _, _, _, _)
run_fsm(conf, state, offsets, ds, dumped) ==
    IF ds = <<>> THEN dumped \o handle_final_state(state)
    ELSE LET d == update_indices(Head(ds), offsets)
             s == next_state(conf, state, d)
         IN  run_fsm(conf, s.state, observe(offsets, d), Tail(ds),
                     dumped \o s.dumped)

\* Panics on an empty sequence; callers pass one with a difference in it.
hunks_of(conf, diff) ==
    LET zero == [old_off |-> 0, new_off |-> 0]
        first_diff == update_indices(Head(diff), zero)
    IN  run_fsm(conf, first_state(conf, first_diff),
                observe(zero, first_diff), Tail(diff), <<>>)

(***************************************************************************)
(* lcs_diff::diff (external crate): a longest-common-subsequence edit      *)
(* sequence.  Among equally long alignments this one puts adds before      *)
(* removes, which is the order hunked.rs says lcs_diff yields.             *)
(***************************************************************************)
RECURSIVE lcs_len(_, _)
lcs_len(a, b) ==
    IF a = <<>> \/ b = <<>> THEN 0
    ELSE IF Head(a) = Head(b) THEN 1 + lcs_len(Tail(a), Tail(b))
    ELSE LET x == lcs_len(a, Tail(b))
             y == lcs_len(Tail(a), b)
         IN  IF x >= y THEN x ELSE y

RECURSIVE lcs_script(_, _, _, _)
lcs_script(a, b, o, n) ==
    IF a = <<>> /\ b = <<>> THEN <<>>
    ELSE IF a = <<>> THEN <<Added(Head(b), n)>> \o lcs_script(a, Tail(b), o, n + 1)
    ELSE IF b = <<>> THEN <<Removed(Head(a), o)>> \o lcs_script(Tail(a), b, o + 1, n)
    ELSE IF Head(a) = Head(b)
         THEN <<Common(Head(a), o, n)>> \o lcs_script(Tail(a), Tail(b), o + 1, n + 1)
    ELSE IF lcs_len(a, Tail(b)) >= lcs_len(Tail(a), b)
         THEN <<Added(Head(b), n)>> \o lcs_script(a, Tail(b), o, n + 1)
    ELSE <<Removed(Head(a), o)>> \o lcs_script(Tail(a), b, o + 1, n)

lcs_diff(a, b) == lcs_script(a, b, 0, 0)

\* A byte slice as the atoms lcs_diff::diff::<u8> compares: an atom is the
\* byte vector it serializes to, one byte long for a u8.
atoms_u8(line) == [i \in 1..Len(line) |-> <<line[i]>>]

(***************************************************************************)
(* wdiff.rs: character classes                                             *)
(***************************************************************************)
AlphaBytes ==
    {"a", "b", "c", "d", "e", "f", "g", "h", "i", "j", "k", "l", "m", "n",
     "o", "p", "q", "r", "s", "t", "u", "v", "w", "x", "y", "z",
     "A", "B", "C", "D", "E", "F", "G", "H", "I", "J", "K", "L", "M", "N",
     "O", "P", "Q", "R", "S", "T", "U", "V", "W", "X", "Y", "Z"}
DigitBytes == {"0", "1", "2", "3", "4", "5", "6", "7", "8", "9"}
\* u8::is_ascii_whitespace: space, tab, line feed, form feed, carriage return
WhiteBytes == {" ", "\n", "\t", "\f", "\r"}

u8_cc(b) ==
    IF b \in AlphaBytes THEN "Alpha"
    ELSE IF b \in DigitBytes THEN "Digit"
    ELSE IF b \in WhiteBytes THEN "White"
    ELSE "Any"

merge_NoWord(self, other) ==
    CASE other = "White" -> IF self = "White" THEN "White" ELSE "Any"
      [] other = "Digit" ->
           IF self = "Digit" THEN "Digit"
           ELSE IF self = "Word" THEN "Word" ELSE "Any"
      [] other = "Alpha" ->
           IF self = "Alpha" THEN "Alpha"
           ELSE IF self = "Word" THEN "Word" ELSE "Any"
      [] other = "Word" ->
           IF self \in {"Alpha", "Digit", "Word"} THEN "Word" ELSE "Any"
      [] OTHER -> "Any"

merge(self, other) ==
    CASE other = "White" -> IF self = "White" THEN "White" ELSE "Any"
      [] other = "Digit" ->
           IF self = "Digit" THEN "Digit"
           ELSE IF self \in {"Alpha", "Word"} THEN "Word" ELSE "Any"
      [] other = "Alpha" ->
           IF self = "Alpha" THEN "Alpha"
           ELSE IF self \in {"Digit", "Word"} THEN "Word" ELSE "Any"
      [] other = "Word" ->
           IF self \in {"Alpha", "Digit", "Word"} THEN "Word" ELSE "Any"
      [] OTHER -> "Any"

RECURSIVE fold_cc(_, _)
fold_cc(cc, bytes) ==
    IF bytes = <<>> THEN cc ELSE fold_cc(merge(cc, u8_cc(Head(bytes))), Tail(bytes))

\* HasCharacterClass::cc of an atom: of a u8 its own class, of a Word the
\* merge of its bytes' classes (Any when empty).
cc_of(atom) ==
    IF atom = <<>> THEN "Any" ELSE fold_cc(u8_cc(Head(atom)), Tail(atom))

accepts(cc, atom) == merge(cc, cc_of(atom)) = cc

cc_write(cc) ==
    CASE cc = "White" -> <<"\\", "s">>
      [] cc = "Digit" -> <<"\\", "d">>
      [] cc = "Alpha" -> <<"\\", "a">>
      [] cc = "Word" -> <<"\\", "w">>
      [] cc = "Any" -> <<".">>

res_data(res) == res.data

\* Writeable::write_to of a slice of atoms.
write_to(atoms) == Flatten(atoms)

\* The length of the longest prefix of TRUE entries of flags (the number of
\* items a peeking loop takes while its condition holds).
take_while_len(flags) ==
    IF \A i \in 1..Len(flags) : flags[i] THEN Len(flags)
    ELSE (CHOOSE k \in 1..Len(flags) :
              ~flags[k] /\ \A j \in 1..(k - 1) : flags[j]) - 1

drop(items, k) == SubSeq(items, k + 1, Len(items))
take(items, k) == SubSeq(items, 1, k)

RECURSIVE merge_run(_, _)
merge_run(cc, items) ==
    IF items = <<>> THEN cc
    ELSE merge_run(merge(cc, cc_of(res_data(Head(items)))), Tail(items))

(***************************************************************************)
(* wdiff.rs: the Narrow and Wide character-class renderers                 *)
(***************************************************************************)
is_change(d) == ~is_common(d)

skip_common_Nothing(cc, items) == 0

\* skip_common: how many leading Common items cc summarizes away.
skip_common(cc, items) ==
    LET skipped(d) == is_common(d) /\ cc # "Any" /\ accepts(cc, res_data(d))
    IN  take_while_len([x \in DOMAIN items |-> skipped(items[x])])

\* context_pre.iter().rev().skip_while(accepted).count()
n_unsummarizable(cc, context_pre) ==
    LET rev == [i \in 1..Len(context_pre) |->
                  context_pre[Len(context_pre) + 1 - i]]
        accepted(ch) == cc # "Any" /\ accepts(cc, ch)
    IN  Len(context_pre) - take_while_len([x \in DOMAIN rev |-> accepted(rev[x])])

RECURSIVE narrow_do_differences(_, _, _)
narrow_do_common(prev_cc, acc, items) ==
    LET k == take_while_len([x \in DOMAIN items |-> is_common(items[x])])
        common == [i \in 1..k |-> res_data(items[i])]
    IN  narrow_do_differences(prev_cc, acc \o common, drop(items, k))

narrow_do_differences_AlwaysPrint(prev_cc, context_pre, items) ==
    IF items = <<>> THEN write_to(context_pre)
    ELSE LET k == take_while_len([x \in DOMAIN Tail(items) |->
                                     is_change(Tail(items)[x])])
             cc == merge_run(cc_of(res_data(Head(items))), take(Tail(items), k))
             rest == drop(Tail(items), k)
             n_uns == n_unsummarizable(cc, context_pre)
         IN  write_to(take(context_pre, n_uns))
             \o cc_write(cc) \o <<"+">>
             \o narrow_do_common(Some(cc), <<>>,
                                 drop(rest, skip_common(cc, rest)))

narrow_do_differences(prev_cc, context_pre, items) ==
    IF items = <<>> THEN write_to(context_pre)
    ELSE LET first == Head(items)
             k == take_while_len([x \in DOMAIN Tail(items) |-> is_change(Tail(items)[x])])
             cc == merge_run(cc_of(res_data(first)), take(Tail(items), k))
             rest == drop(Tail(items), k)
             n_uns == n_unsummarizable(cc, context_pre)
             print_cc == IF prev_cc = Some(cc) THEN n_uns # 0 ELSE TRUE
         IN  write_to(take(context_pre, n_uns))
             \o (IF print_cc THEN cc_write(cc) \o <<"+">> ELSE <<>>)
             \o narrow_do_common(Some(cc), <<>>,
                                 drop(rest, skip_common(cc, rest)))

RECURSIVE count_len(_, _)
count_len(kind, items) ==
    IF items = <<>> THEN 0
    ELSE (IF Head(items).kind = kind THEN Len(Head(items).data) ELSE 0)
         + count_len(kind, Tail(items))

RECURSIVE wide_do_common_AlwaysPair(_)
wide_do_differences_AlwaysPair(items) ==
    IF items = <<>> THEN <<>>
    ELSE LET k == 1 + take_while_len([x \in DOMAIN Tail(items) |->
                                         is_change(Tail(items)[x])])
             run == take(items, k)
             cc == merge_run(cc_of(res_data(Head(run))), Tail(run))
         IN  cc_write(cc)
             \o <<"{">> \o fmt_usize(count_len("Removed", run)) \o <<",">>
             \o fmt_usize(count_len("Added", run)) \o <<"}">>
             \o wide_do_common_AlwaysPair(drop(items, k))

wide_do_common_AlwaysPair(items) ==
    LET k == take_while_len([x \in DOMAIN items |-> is_common(items[x])])
    IN  write_to([i \in 1..k |-> res_data(items[i])])
        \o wide_do_differences_AlwaysPair(drop(items, k))

RECURSIVE wide_do_common(_)
wide_do_differences(items) ==
    IF items = <<>> THEN <<>>
    ELSE LET k == 1 + take_while_len([x \in DOMAIN Tail(items) |-> is_change(Tail(items)[x])])
             run == take(items, k)
             cc == merge_run(cc_of(res_data(Head(run))), Tail(run))
             nadded == count_len("Added", run)
             nremoved == count_len("Removed", run)
         IN  cc_write(cc)
             \o (IF nadded = nremoved
                 THEN <<"{">> \o fmt_usize(nadded) \o <<"}">>
                 ELSE <<"{">> \o fmt_usize(nremoved) \o <<",">>
                      \o fmt_usize(nadded) \o <<"}">>)
             \o wide_do_common(drop(items, k))

wide_do_common(items) ==
    LET k == take_while_len([x \in DOMAIN items |-> is_common(items[x])])
        common == [i \in 1..k |-> res_data(items[i])]
    IN  write_to(common) \o wide_do_differences(drop(items, k))

intra_line_write_cc(hunk, expansion) ==
    IF expansion = "Narrow" THEN narrow_do_common(None, <<>>, hunk.items)
    ELSE wide_do_common(hunk.items)

(***************************************************************************)
(* wdiff.rs: the wdiff renderer                                            *)
(***************************************************************************)
wdiff_step_NoClose(state, d) ==
    CASE d.kind = "Common" -> [state |-> "ShowingCommon", bytes |-> d.data]
      [] d.kind = "Added" /\ state = "ShowingAdds" ->
           [state |-> "ShowingAdds", bytes |-> d.data]
      [] d.kind = "Added" /\ state = "ShowingCommon" ->
           [state |-> "ShowingAdds", bytes |-> <<"{", "+">> \o d.data]
      [] d.kind = "Added" /\ state = "ShowingRemoves" ->
           [state |-> "ShowingAdds", bytes |-> <<"}", "{", "+">> \o d.data]
      [] d.kind = "Removed" /\ state = "ShowingRemoves" ->
           [state |-> "ShowingRemoves", bytes |-> d.data]
      [] d.kind = "Removed" /\ state = "ShowingCommon" ->
           [state |-> "ShowingRemoves", bytes |-> <<"{", "-">> \o d.data]
      [] d.kind = "Removed" /\ state = "ShowingAdds" ->
           [state |-> "ShowingRemoves", bytes |-> <<"}", "{", "-">> \o d.data]

wdiff_step(state, d) ==
    CASE state = "ShowingCommon" /\ d.kind = "Common" ->
           [state |-> "ShowingCommon", bytes |-> d.data]
      [] state = "ShowingCommon" /\ d.kind = "Added" ->
           [state |-> "ShowingAdds", bytes |-> <<"{", "+">> \o d.data]
      [] state = "ShowingCommon" /\ d.kind = "Removed" ->
           [state |-> "ShowingRemoves", bytes |-> <<"{", "-">> \o d.data]
      [] state = "ShowingAdds" /\ d.kind = "Common" ->
           [state |-> "ShowingCommon", bytes |-> <<"}">> \o d.data]
      [] state = "ShowingAdds" /\ d.kind = "Added" ->
           [state |-> "ShowingAdds", bytes |-> d.data]
      [] state = "ShowingAdds" /\ d.kind = "Removed" ->
           [state |-> "ShowingRemoves", bytes |-> <<"}", "{", "-">> \o d.data]
      [] state = "ShowingRemoves" /\ d.kind = "Common" ->
           [state |-> "ShowingCommon", bytes |-> <<"}">> \o d.data]
      [] state = "ShowingRemoves" /\ d.kind = "Added" ->
           [state |-> "ShowingAdds", bytes |-> <<"}", "{", "+">> \o d.data]
      [] state = "ShowingRemoves" /\ d.kind = "Removed" ->
           [state |-> "ShowingRemoves", bytes |-> d.data]

RECURSIVE wdiff_loop_NoFinalClose(_, _)
wdiff_loop_NoFinalClose(state, items) ==
    IF items = <<>> THEN <<>>
    ELSE LET s == wdiff_step(state, Head(items))
         IN  s.bytes \o wdiff_loop_NoFinalClose(s.state, Tail(items))

RECURSIVE wdiff_loop(_, _)
wdiff_loop(state, items) ==
    IF items = <<>>
    THEN (IF state \in {"ShowingAdds", "ShowingRemoves"} THEN <<"}">> ELSE <<>>)
    ELSE LET s == wdiff_step(state, Head(items))
         IN  s.bytes \o wdiff_loop(s.state, Tail(items))

intra_line_write_wdiff(hunk) == wdiff_loop("ShowingCommon", hunk.items)

(***************************************************************************)
(* hunked.rs: the byte-level hunk writer and the nested call               *)
(***************************************************************************)
Hunk_u8_do_write_Swapped(hunk, conf, o, n) ==
    CASE conf.context_format = "CC_Narrow" -> intra_line_write_cc(hunk, "Narrow")
      [] conf.context_format = "CC_Wide" -> intra_line_write_cc(hunk, "Wide")
      [] conf.context_format = "Wdiff" -> intra_line_write_wdiff(hunk)
      [] conf.context_format = "Old" -> n
      [] conf.context_format = "New" -> o

Hunk_u8_do_write(hunk, conf, o, n) ==
    CASE conf.context_format = "CC_Narrow" -> intra_line_write_cc(hunk, "Narrow")
      [] conf.context_format = "CC_Wide" -> intra_line_write_cc(hunk, "Wide")
      [] conf.context_format = "Wdiff" -> intra_line_write_wdiff(hunk)
      [] conf.context_format = "Old" -> o
      [] conf.context_format = "New" -> n

\* The calls of display_diff_hunked that Hunk<u8>::do_write makes: none of
\* its four arms has one.
Hunk_u8_calls(hunk, conf) ==
    CASE conf.context_format \in {"CC_Narrow", "CC_Wide"} -> 0
      [] conf.context_format = "Wdiff" -> 0
      [] conf.context_format = "Old" -> 0
      [] conf.context_format = "New" -> 0

RECURSIVE Sum(_)
Sum(ns) == IF ns = <<>> THEN 0 ELSE Head(ns) + Sum(Tail(ns))

\* display_diff_hunked::<u8>: every hunk the machine dumps goes through
\* Hunk<u8>::do_write.
display_u8_calls(conf, diff) ==
    LET hs == hunks_of(conf, diff)
    IN  Sum([i \in 1..Len(hs) |-> Hunk_u8_calls(hs[i], conf)])

display_diff_hunked_u8(conf, o, n, diff) ==
    LET hs == hunks_of(conf, diff)
    IN  Flatten([i \in 1..Len(hs) |-> Hunk_u8_do_write(hs[i], conf, o, n)])

(***************************************************************************)
(* hunked.rs: the line-level hunk writer                                   *)
(***************************************************************************)
write_off_len_AlwaysBoth(off, len) ==
    fmt_usize(off + 1) \o <<",">> \o fmt_usize(len)

write_off_len(off, len) ==
    IF len = 0 THEN fmt_usize(off) \o <<",", "0">>
    ELSE fmt_usize(off + 1)
         \o (IF len > 1 THEN <<",">> \o fmt_usize(len) ELSE <<>>)

write_hunk_header(hunk) ==
    <<"@", "@", " ", "-">> \o write_off_len(hunk.old_start, hunk.old_len)
    \o <<" ", "+">> \o write_off_len(hunk.new_start, hunk.new_len)
    \o <<" ", "@", "@", NL>>

\* b"\n\\ No newline at end of file\n"
no_newline_marker ==
    <<NL, "\\", " ", "N", "o", " ", "n", "e", "w", "l", "i", "n", "e", " ",
      "a", "t", " ", "e", "n", "d", " ", "o", "f", " ", "f", "i", "l", "e", NL>>

\* The reverse pre-scan of do_write: (last_removed_nl, last_added_nl), each
\* an Option<bool>; i is the item the loop is about to look at, 0 at its end.
RECURSIVE last_nl_scan(_, _, _, _, _, _)
last_nl_scan(items, i, last_removed_nl, last_added_nl, olds, news) ==
    IF i = 0 THEN <<last_removed_nl, last_added_nl>>
    ELSE LET d == items[i]
             continue == last_nl_scan(items, i - 1, last_removed_nl,
                                      last_added_nl, olds, news)
         IN  CASE d.kind = "Common" -> continue
               [] d.kind = "Removed" ->
                    IF is_some(last_removed_nl) THEN continue
                    ELSE LET o == unwrap(d.old_index) IN
                         IF o < Len(olds) - 1 THEN continue
                         ELSE LET nl == Some(Last(olds[o + 1]) = NL) IN
                              IF is_some(last_added_nl)
                              THEN <<nl, last_added_nl>>
                              ELSE last_nl_scan(items, i - 1, nl,
                                                last_added_nl, olds, news)
               [] d.kind = "Added" ->
                    IF is_some(last_added_nl) THEN continue
                    ELSE LET n == unwrap(d.new_index) IN
                         IF n < Len(news) - 1 THEN continue
                         ELSE LET nl == Some(Last(news[n + 1]) = NL) IN
                              IF is_some(last_removed_nl)
                              THEN <<last_removed_nl, nl>>
                              ELSE last_nl_scan(items, i - 1, last_removed_nl,
                                                nl, olds, news)

nested_call_Always(o, n) == TRUE

\* The Common arm of do_write calls display_diff_hunked::<u8> when the
\* byte-level diff of the two lines has a difference in it.
nested_call(o, n) == exist_differences(lcs_diff(atoms_u8(o), atoms_u8(n)))

write_common(d, conf, olds, news) ==
    LET o == olds[unwrap(d.old_index) + 1]
        n == news[unwrap(d.new_index) + 1]
        diff == lcs_diff(atoms_u8(o), atoms_u8(n))
    IN  IF ~nested_call(o, n) THEN <<" ">> \o o
        ELSE (IF conf.mark_changed_context THEN <<"!">> ELSE <<" ">>)
             \o display_diff_hunked_u8([conf EXCEPT !.context = usize_MAX],
                                       o, n, diff)

write_removed(d, nls, olds) ==
    LET o == unwrap(d.old_index)
        marked ==
          /\ o = Len(olds) - 1
          /\ \/ /\ is_some(nls[1]) /\ is_some(nls[2])
                /\ ~unwrap(nls[1]) /\ unwrap(nls[2])
             \/ nls[1] = Some(FALSE) /\ nls[2] = None
    IN  <<"-">> \o olds[o + 1] \o (IF marked THEN no_newline_marker ELSE <<>>)

write_added(d, nls, news) ==
    LET n == unwrap(d.new_index)
        marked ==
          /\ n = Len(news) - 1
          /\ \/ /\ is_some(nls[1]) /\ is_some(nls[2])
                /\ unwrap(nls[1]) /\ ~unwrap(nls[2])
             \/ nls[1] = None /\ nls[2] = Some(FALSE)
    IN  <<"+">> \o news[n + 1] \o (IF marked THEN no_newline_marker ELSE <<>>)

\* The patterns of the second loop of do_write: an item that matches none
\* panics ("Can't print DiffElement with neither side").
write_item_ok(d) ==
    CASE d.kind = "Common" -> is_some(d.old_index) /\ is_some(d.new_index)
      [] d.kind = "Removed" -> is_some(d.old_index)
      [] d.kind = "Added" -> is_some(d.new_index)

write_item(d, conf, nls, olds, news) ==
    CASE d.kind = "Common" -> write_common(d, conf, olds, news)
      [] d.kind = "Removed" -> write_removed(d, nls, olds)
      [] d.kind = "Added" -> write_added(d, nls, news)

\* The second loop of do_write: every item of the hunk, in order.
write_items(hunk, conf, olds, news) ==
    LET nls == last_nl_scan(hunk.items, Len(hunk.items), None, None, olds, news)
    IN  Flatten([i \in 1..Len(hunk.items) |->
                   write_item(hunk.items[i], conf, nls, olds, news)])

Hunk_lines_do_write(hunk, conf, olds, news) ==
    write_hunk_header(hunk) \o write_items(hunk, conf, olds, news)

\* The calls of display_diff_hunked made while dump_hunk writes: one at
\* depth 2 for each Common item whose lines differ, and at depth 3 the
\* calls made inside these.
nested_items(h, olds, news) ==
    {j \in 1..Len(h.items) :
        /\ h.items[j].kind = "Common"
        /\ nested_call(olds[unwrap(h.items[j].old_index) + 1],
                       news[unwrap(h.items[j].new_index) + 1])}

item_u8_calls(d, conf, olds, news) ==
    LET o == olds[unwrap(d.old_index) + 1]
        n == news[unwrap(d.new_index) + 1]
    IN  IF d.kind = "Common" /\ nested_call(o, n)
        THEN display_u8_calls([conf EXCEPT !.context = usize_MAX],
                              lcs_diff(atoms_u8(o), atoms_u8(n)))
        ELSE 0

dump_hunk_calls(cs, hunk, conf, olds, news) ==
    IF is_some(hunk)
    THEN LET h == unwrap(hunk)
         IN  [cs EXCEPT
                ![2] = @ + Cardinality(nested_items(h, olds, news)),
                ![3] = @ + Sum([j \in 1..Len(h.items) |->
                                  item_u8_calls(h.items[j], conf, olds, news)])]
    ELSE cs

dump_hunk_ok(hunk) ==
    is_some(hunk) =>
        \A i \in 1..Len(unwrap(hunk).items) :
            write_item_ok(unwrap(hunk).items[i])

\* dump_hunk over the Option it is given.
dump_hunk(hunk, conf, olds, news) ==
    IF is_some(hunk) THEN Hunk_lines_do_write(unwrap(hunk), conf, olds, news)
    ELSE <<>>

(***************************************************************************)
(* One comparison: diff_files, then display_diff_hunked record by record.  *)
(***************************************************************************)
VARIABLES
    conf,       \* the Conf of the comparison
    old_lines,  \* read_lines(old): byte vectors, 0-based in the code
    new_lines,  \* read_lines(new)
    diff,       \* the edit sequence lcs_diff returned, over the keys
    pc,         \* "diff_files", "display", "loop", "done" or "panic"
    pos,        \* how many records of diff display_diff_hunked consumed
    offsets,    \* FileOffsets
    state,      \* the State of the machine
    out,        \* the bytes written to the output sink
    written,    \* history: the hunks handed to do_write, in order
    ret,        \* Option: what the entry point returned, once it has
                \* (the exit code of diff_files and display_diff_hunked)
    entry,      \* the function the caller entered: "diff_files", or
                \* "display_diff_hunked" (it is pub) called directly
    arg,        \* Option: what the entry point is given besides conf and
                \* a line (an option value, a regex, classes), if any
    calls       \* history: how often display_diff_hunked was entered at
                \* each depth: 1 from outside, 2 from Hunk<Vec<u8>>::do_write,
                \* 3 from Hunk<u8>::do_write

vars == <<conf, old_lines, new_lines, diff, pc, pos, offsets, state, out,
          written, ret, entry, arg, calls>>

inputs == <<conf, old_lines, new_lines, diff, entry, arg>>

Kinds == {"Added", "Removed", "Common"}
Formats == {"CC_Narrow", "CC_Wide", "Wdiff", "Old", "New"}

Scripts(n) == UNION {[1..m -> Kinds] : m \in 0..n}

\* Indices of the record at position p of a script of kinds, as lcs_diff
\* numbers them: the count of earlier records on that side.
old_before(kinds, p) == Cardinality({q \in 1..(p - 1) : kinds[q] # "Added"})
new_before(kinds, p) == Cardinality({q \in 1..(p - 1) : kinds[q] # "Removed"})
old_count(kinds) == old_before(kinds, Len(kinds) + 1)
new_count(kinds) == new_before(kinds, Len(kinds) + 1)

\* The positions of the records holding old line o / new line n (0-based).
old_pos(kinds, o) ==
    CHOOSE p \in 1..Len(kinds) : kinds[p] # "Added" /\ old_before(kinds, p) = o
new_pos(kinds, n) ==
    CHOOSE p \in 1..Len(kinds) : kinds[p] # "Removed" /\ new_before(kinds, p) = n

\* The text of the line behind the record at position p, without its
\* newline: every line of a file is distinct, and a Common record's line is
\* the same in both files.
line_text(kinds, p) ==
    CASE kinds[p] = "Common" -> <<"c">> \o fmt_usize(old_before(kinds, p))
      [] kinds[p] = "Removed" -> <<"r">> \o fmt_usize(old_before(kinds, p))
      [] kinds[p] = "Added" -> <<"a">> \o fmt_usize(new_before(kinds, p))

\* A file whose lines all end in a newline, except the last when ~nl.
old_file(kinds, nl) ==
    [i \in 1..old_count(kinds) |->
        line_text(kinds, old_pos(kinds, i - 1))
        \o (IF i < old_count(kinds) \/ nl THEN <<NL>> ELSE <<>>)]
new_file(kinds, nl) ==
    [i \in 1..new_count(kinds) |->
        line_text(kinds, new_pos(kinds, i - 1))
        \o (IF i < new_count(kinds) \/ nl THEN <<NL>> ELSE <<>>)]

\* The edit sequence over the keys, as lcs_diff returns it.
script_diff(kinds, keys_old, keys_new) ==
    [p \in 1..Len(kinds) |->
        CASE kinds[p] = "Common" ->
               Common(keys_old[old_before(kinds, p) + 1],
                      old_before(kinds, p), new_before(kinds, p))
          [] kinds[p] = "Removed" ->
               Removed(keys_old[old_before(kinds, p) + 1], old_before(kinds, p))
          [] kinds[p] = "Added" ->
               Added(keys_new[new_before(kinds, p) + 1], new_before(kinds, p))]

\* Every Common record pairs two byte-equal lines (no selector).
commons_equal(d, olds, news) ==
    \A p \in 1..Len(d) :
        is_common(d[p]) =>
            olds[unwrap(d[p].old_index) + 1] = news[unwrap(d[p].new_index) + 1]

no_calls == [depth \in 1..3 |-> 0]

unset_state ==
    [tag |-> "Unset", hunk |-> None, seen |-> 0, commons |-> <<>>,
     adds |-> <<>>]

\* Every caller in the repository hands display_diff_hunked a sequence with
\* a difference in it (diff_files and the tests' do_wdiff look first); a
\* direct call with such a sequence is the state diff_files reaches at
\* "display", so the direct calls kept here are the ones without differences.
InitRun ==
    /\ entry \in {"diff_files"} \cup
                 (IF exist_differences(diff) THEN {}
                  ELSE {"display_diff_hunked"})
    /\ arg = None
    /\ calls = no_calls
    /\ pc = IF entry = "diff_files" THEN "diff_files" ELSE "display"
    /\ pos = 0
    /\ offsets = [old_off |-> 0, new_off |-> 0]
    /\ state = unset_state
    /\ out = <<>>
    /\ written = <<>>
    /\ ret = None

\* A comparison without a selector: the keys are the lines themselves.
Init ==
    /\ \E kinds \in Scripts(MaxLen), old_nl \in BOOLEAN, new_nl \in BOOLEAN :
          /\ old_count(kinds) = 0 => old_nl
          /\ new_count(kinds) = 0 => new_nl
          /\ old_lines = old_file(kinds, old_nl)
          /\ new_lines = new_file(kinds, new_nl)
          /\ diff = script_diff(kinds, old_lines, new_lines)
          /\ commons_equal(diff, old_lines, new_lines)
    /\ \E context \in 0..MaxContext :
          conf = [context |-> context, mark_changed_context |-> FALSE,
                  context_format |-> "Wdiff"]
    /\ InitRun

(***************************************************************************)
(* A comparison under a selector: one Common record pairs two lines whose  *)
(* keys are equal and whose bytes differ.  Each variant gives what follows *)
(* the shared text of that line in the old and in the new file.            *)
(***************************************************************************)
SelVariants ==
    { [old |-> <<"x", NL>>, new |-> <<"y", NL>>],
      [old |-> <<"1", NL>>, new |-> <<"x", "2", NL>>],
      [old |-> <<" ", NL>>, new |-> <<" ", " ", NL>>],
      [old |-> <<NL>>, new |-> <<>>],
      [old |-> <<>>, new |-> <<NL>>] }

InitSel ==
    /\ \/ /\ old_lines = <<>>
          /\ new_lines = <<>>
          /\ diff = <<>>
       \/ \E kinds \in Scripts(MaxSelLen), v \in SelVariants :
          \E p \in {q \in 1..Len(kinds) : kinds[q] = "Common"} :
             LET o == old_before(kinds, p) + 1
                 n == new_before(kinds, p) + 1
                 olds == old_file(kinds, TRUE)
                 news == new_file(kinds, TRUE)
                 key == line_text(kinds, p) \o <<NL>>
             IN  \* only the last line of a file may lack its newline
                 /\ Last(<<NL>> \o v.old) # NL => o = old_count(kinds)
                 /\ Last(<<NL>> \o v.new) # NL => n = new_count(kinds)
                 /\ old_lines =
                       [olds EXCEPT ![o] = line_text(kinds, p) \o v.old]
                 /\ new_lines =
                       [news EXCEPT ![n] = line_text(kinds, p) \o v.new]
                 /\ diff = script_diff(kinds, [olds EXCEPT ![o] = key],
                                       [news EXCEPT ![n] = key])
    /\ \E context \in 1..MaxContext, mark \in BOOLEAN, format \in Formats :
          conf = [context |-> context, mark_changed_context |-> mark,
                  context_format |-> format]
    /\ InitRun

(***************************************************************************)
(* Actions                                                                 *)
(***************************************************************************)
\* diff_files: no Added or Removed record: exit 0 without any output.
DiffFilesEqual ==
    /\ pc = "diff_files"
    /\ ~exist_differences(diff)
    /\ pc' = "done"
    /\ ret' = Some(0)
    /\ UNCHANGED <<inputs, pos, offsets, state, out, written, calls>>

\* diff_files: differences exist: hand the sequence to display_diff_hunked.
DiffFilesDiffer ==
    /\ pc = "diff_files"
    /\ exist_differences(diff)
    /\ pc' = "display"
    /\ UNCHANGED <<inputs, pos, offsets, state, out, written, ret, calls>>

\* display_diff_hunked on an empty sequence panics.
DisplayEmpty ==
    /\ pc = "display"
    /\ diff = <<>>
    /\ pc' = "panic"
    /\ calls' = [calls EXCEPT ![1] = @ + 1]
    /\ UNCHANGED <<inputs, pos, offsets, state, out, written, ret>>

\* display_diff_hunked: the first record sets up the machine.
DisplayFirst ==
    /\ pc = "display"
    /\ diff # <<>>
    /\ IF update_indices_ok(diff[1], offsets)
       THEN LET first_diff == update_indices(diff[1], offsets)
            IN  /\ offsets' = observe(offsets, first_diff)
                /\ state' = first_state(conf, first_diff)
                /\ pos' = 1
                /\ pc' = "loop"
       ELSE /\ pc' = "panic"
            /\ UNCHANGED <<pos, offsets, state>>
    /\ calls' = [calls EXCEPT ![1] = @ + 1]
    /\ UNCHANGED <<inputs, out, written, ret>>

\* display_diff_hunked: one turn of the loop over the remaining records.
DisplayStep ==
    /\ pc = "loop"
    /\ pos < Len(diff)
    /\ IF /\ update_indices_ok(diff[pos + 1], offsets)
          /\ next_state_ok(conf, state)
          /\ dump_hunk_ok(next_state(conf, state,
                 update_indices(diff[pos + 1], offsets)).dumped)
       THEN LET d == update_indices(diff[pos + 1], offsets)
                s == next_state(conf, state, d)
            IN  /\ offsets' = observe(offsets, d)
                /\ state' = s.state
                /\ out' = out \o dump_hunk(s.dumped, conf, old_lines, new_lines)
                /\ written' = written \o s.dumped
                /\ calls' = dump_hunk_calls(calls, s.dumped, conf,
                                            old_lines, new_lines)
                /\ pos' = pos + 1
                /\ pc' = "loop"
       ELSE /\ pc' = "panic"
            /\ UNCHANGED <<pos, offsets, state, out, written, calls>>
    /\ UNCHANGED <<inputs, ret>>

\* display_diff_hunked: end of the sequence: handle_final_state, Ok(1).
DisplayFinish ==
    /\ pc = "loop"
    /\ pos = Len(diff)
    /\ LET hunk == handle_final_state(state)
       IN  IF dump_hunk_ok(hunk)
           THEN /\ out' = out \o dump_hunk(hunk, conf, old_lines, new_lines)
                /\ written' = written \o hunk
                /\ calls' = dump_hunk_calls(calls, hunk, conf,
                                            old_lines, new_lines)
                /\ ret' = Some(1)
                /\ pc' = "done"
           ELSE /\ pc' = "panic"
                /\ UNCHANGED <<out, written, ret, calls>>
    /\ UNCHANGED <<inputs, pos, offsets, state>>

Next ==
    \/ DiffFilesEqual
    \/ DiffFilesDiffer
    \/ DisplayEmpty
    \/ DisplayFirst
    \/ DisplayStep
    \/ DisplayFinish

Spec == Init /\ [][Next]_vars

SpecSel == InitSel /\ [][Next]_vars

\* The control flow of Next: where each action is entered and where it
\* leaves pc and pos.  An action's guard is its test of pc, diff and pos,
\* and each outcome of its IF has a branch, so Next can take a step exactly
\* where Advance can, and a step of Next is a step of Advance.
Advance ==
    \/ /\ pc = "diff_files"
       /\ pc' \in {"done", "display"}
       /\ pos' = pos
    \/ /\ pc = "display"
       /\ \/ pc' = "panic" /\ pos' = pos
          \/ diff # <<>> /\ pc' = "loop" /\ pos' = 1
    \/ /\ pc = "loop"
       /\ pos < Len(diff)
       /\ \/ pc' = "loop" /\ pos' = pos + 1
          \/ pc' = "panic" /\ pos' = pos
    \/ /\ pc = "loop"
       /\ pos = Len(diff)
       /\ pc' \in {"done", "panic"}
       /\ pos' = pos

\* The program runs on its own: a step it can take is taken.
SpecSelLive == SpecSel /\ WF_<<pc, pos>>(Advance)

(***************************************************************************)
(* The nested call: display_diff_hunked::<u8> over the byte-level edit     *)
(* sequence of one changed line, with unlimited context.  old_lines and    *)
(* new_lines hold the one old and the one new line.                        *)
(***************************************************************************)
Bytes == {"a", "1", " "}

InitU8 ==
    /\ \E kinds \in Scripts(MaxAtoms) :
       \E bytes \in [1..Len(kinds) -> Bytes] :
          LET o == [i \in 1..old_count(kinds) |->
                       <<bytes[old_pos(kinds, i - 1)]>>]
              n == [i \in 1..new_count(kinds) |->
                       <<bytes[new_pos(kinds, i - 1)]>>]
          IN  /\ \E p \in 1..Len(kinds) : kinds[p] # "Common"
              /\ old_lines = <<Flatten(o)>>
              /\ new_lines = <<Flatten(n)>>
              /\ diff = script_diff(kinds, o, n)
    /\ \E format \in Formats :
          conf = [context |-> usize_MAX, mark_changed_context |-> FALSE,
                  context_format |-> format]
    /\ entry = "display_diff_hunked_u8"
    /\ arg = None
    /\ calls = no_calls
    /\ pc = "display_u8"
    /\ pos = 0
    /\ offsets = [old_off |-> 0, new_off |-> 0]
    /\ state = unset_state
    /\ out = <<>>
    /\ written = <<>>
    /\ ret = None

\* display_diff_hunked::<u8>: the machine over the whole sequence, every
\* dumped hunk written by Hunk<u8>::do_write, Ok(1).
DisplayU8 ==
    /\ pc = "display_u8"
    /\ written' = hunks_of(conf, diff)
    /\ out' = display_diff_hunked_u8(conf, old_lines[1], new_lines[1], diff)
    /\ calls' = [calls EXCEPT ![2] = @ + 1,
                              ![3] = @ + display_u8_calls(conf, diff)]
    /\ pos' = Len(diff)
    /\ ret' = Some(1)
    /\ pc' = "done"
    /\ UNCHANGED <<inputs, offsets, state>>

NextU8 == DisplayU8

SpecU8 == InitU8 /\ [][NextU8]_vars

(***************************************************************************)
(* The functions applied to one option value or to one line, entered on    *)
(* their own: ContextLineFormat::new, tokenize, extract_re_matches and      *)
(* CharacterClass::merge.  old_lines holds the one line, arg the option    *)
(* value, the regex or the classes.                                        *)
(***************************************************************************)
allowed_values == <<"cc", "ccwide", "wdiff", "old", "new">>

\* What the panic of ContextLineFormat::new reports.
Unsupported == "Unsupported value"

ContextLineFormat_new(s) ==
    IF s = "cc" THEN "CC_Narrow"
    ELSE IF s = "ccmin" THEN "CC_Wide"
    ELSE IF s = "wdiff" THEN "Wdiff"
    ELSE IF s = "old" THEN "Old"
    ELSE IF s = "new" THEN "New"
    ELSE Unsupported

\* The bytes the regex class \w holds, and the places \b matches in a line:
\* the 0-based offsets with a word byte on exactly one side.
WordBytes == AlphaBytes \cup DigitBytes \cup {"_"}

is_word_at(line, k) == k \in 1..Len(line) /\ line[k] \in WordBytes

word_boundaries(line) ==
    {m \in 0..Len(line) : is_word_at(line, m) # is_word_at(line, m + 1)}

\* Regex::split over the empty matches of \b: the piece that ends at each
\* match, then the rest of the line.  Releases of the regex crate differ on
\* a rest that is empty: older ones end the iteration, newer ones yield it.
split(line, yields_empty_rest) ==
    LET bs == word_boundaries(line)
        n == Cardinality(bs)
        ms == [i \in 1..n |->
                 CHOOSE m \in bs : Cardinality({x \in bs : x < m}) = i - 1]
        start(i) == IF i = 1 THEN 0 ELSE ms[i - 1]
        last == IF n = 0 THEN 0 ELSE ms[n]
    IN  [i \in 1..n |-> SubSeq(line, start(i) + 1, ms[i])] \o
        (IF last >= Len(line) /\ ~yields_empty_rest THEN <<>>
         ELSE <<SubSeq(line, last + 1, Len(line))>>)

\* tokenize: Some(wlen) when the last word is longer than one byte and ends
\* with the newline.
need_split(words) ==
    IF Len(words) > 0
    THEN LET lastw == Last(words)
             wlen == Len(lastw)
         IN  IF wlen > 1
             THEN IF lastw[wlen] = NL THEN Some(wlen) ELSE None
             ELSE None
    ELSE None

\* tokenize returns unless the slice of its split starts below zero:
\* len - wlen - 1 is a usize, and the last word may be the whole line.
tokenize_ok(line, yields_empty_rest) ==
    LET wlen == need_split(split(line, yields_empty_rest))
    IN  is_some(wlen) => Len(line) - unwrap(wlen) - 1 >= 0

\* The slices line[(len - wlen - 1)..(len - 2)] and line[(len - 1)..len]
\* replace the last word.
tokenize(line, yields_empty_rest) ==
    LET words == split(line, yields_empty_rest)
        wlen == need_split(words)
        len == Len(line)
    IN  IF is_some(wlen)
        THEN take(words, Len(words) - 1) \o
             << SubSeq(line, len - unwrap(wlen), len - 2),
                SubSeq(line, len, len) >>
        ELSE words

\* Regex::captures for the expressions of the model: None without a match,
\* else the groups 0..n of the leftmost match, each None when it took no
\* part in the match.  "." leaves out the newline.
leading(line, bytes) ==
    take_while_len([i \in DOMAIN line |-> line[i] \in bytes])

captures(re, line) ==
    IF re = "^(a+)"
    THEN LET n == leading(line, {"a"})
         IN  IF n = 0 THEN None
             ELSE Some(<<Some(take(line, n)), Some(take(line, n))>>)
    ELSE IF re = "^.(.*)"
    THEN LET n == leading(line, {b \in {line[i] : i \in DOMAIN line} : b # NL})
         IN  IF n = 0 THEN None
             ELSE Some(<<Some(take(line, n)), Some(SubSeq(line, 2, n))>>)
    ELSE IF re = "(a)(#)?"
    THEN LET at == {i \in DOMAIN line : line[i] = "a"}
         IN  IF at = {} THEN None
             ELSE LET i == CHOOSE x \in at : \A y \in at : x <= y
                  IN  IF i < Len(line) /\ line[i + 1] = "#"
                      THEN Some(<<Some(<<"a", "#">>), Some(<<"a">>),
                                  Some(<<"#">>)>>)
                      ELSE Some(<<Some(<<"a">>), Some(<<"a">>), None>>)
    ELSE None

\* extract_re_matches returns unless caps[i] names a group that took no
\* part in the match (indexing Captures panics then).
extract_re_matches_ok(re, line) ==
    LET caps == captures(re, line)
    IN  is_some(caps) =>
            \A i \in 2..Len(unwrap(caps)) : is_some(unwrap(caps)[i])

\* The groups 1..n written one after the other, or the line when the
\* expression does not match; nothing is added to either.
extract_re_matches(conf_, re, line) ==
    LET caps == captures(re, line)
    IN  IF is_some(caps)
        THEN Flatten([i \in 1..(Len(unwrap(caps)) - 1) |->
                         unwrap(unwrap(caps)[i + 1])])
        ELSE line

pick_lines(conf_, re, lines) ==
    [l \in DOMAIN lines |-> extract_re_matches(conf_, re, lines[l])]

\* The variants of CharacterClass.
Classes == {"White", "Digit", "Alpha", "Word", "Any"}

\* merge applied from left to right to a sequence of classes, as the
\* renderers and Word::cc fold it.
RECURSIVE merge_all(_, _)
merge_all(cc, ccs) ==
    IF ccs = <<>> THEN cc ELSE merge_all(merge(cc, Head(ccs)), Tail(ccs))

Conf_default ==
    [context |-> 3, mark_changed_context |-> FALSE, context_format |-> "Wdiff"]

FormatArgs ==
    {allowed_values[i] : i \in DOMAIN allowed_values} \cup {"ccmin", "narrow"}

LineBytes == {"a", "#", " "}

Regexes == {"^(a+)", "^.(.*)", "(a)(#)?"}

\* What read_lines yields: bytes up to and including a newline, or the
\* non-empty rest of a file that does not end with one.
Lines ==
    {body \o nl : body \in UNION {[1..m -> LineBytes] : m \in 0..MaxLine},
                  nl \in {<<>>, <<NL>>}} \ {<<>>}

InitFront ==
    /\ \/ /\ entry = "ContextLineFormat::new"
          /\ arg \in {Some(s) : s \in FormatArgs}
          /\ old_lines = <<>>
       \/ /\ entry = "tokenize"
          /\ arg = None
          /\ old_lines \in {<<line>> : line \in Lines}
       \/ /\ entry = "extract_re_matches"
          /\ arg \in {Some(re) : re \in Regexes}
          /\ old_lines \in {<<line>> : line \in Lines}
       \/ /\ entry = "CharacterClass::merge"
          /\ arg \in {Some(ccs) : ccs \in UNION {[1..m -> Classes] :
                                                   m \in 2..MaxMerged}}
          /\ old_lines = <<>>
    /\ conf = Conf_default
    /\ calls = no_calls
    /\ new_lines = <<>>
    /\ diff = <<>>
    /\ pc = "call"
    /\ pos = 0
    /\ offsets = [old_off |-> 0, new_off |-> 0]
    /\ state = unset_state
    /\ out = <<>>
    /\ written = <<>>
    /\ ret = None

Returns(value) ==
    /\ ret' = Some(value)
    /\ pc' = "done"
    /\ UNCHANGED <<inputs, pos, offsets, state, out, written, calls>>

Panics ==
    /\ pc' = "panic"
    /\ UNCHANGED <<inputs, pos, offsets, state, out, written, ret, calls>>

CallNew ==
    /\ pc = "call"
    /\ entry = "ContextLineFormat::new"
    /\ LET format == ContextLineFormat_new(unwrap(arg))
       IN  IF format = Unsupported THEN Panics ELSE Returns(format)

CallTokenize ==
    /\ pc = "call"
    /\ entry = "tokenize"
    /\ \E yields_empty_rest \in BOOLEAN :
          IF tokenize_ok(old_lines[1], yields_empty_rest)
          THEN Returns(tokenize(old_lines[1], yields_empty_rest))
          ELSE Panics

CallExtract ==
    /\ pc = "call"
    /\ entry = "extract_re_matches"
    /\ IF extract_re_matches_ok(unwrap(arg), old_lines[1])
       THEN Returns(extract_re_matches(conf, unwrap(arg), old_lines[1]))
       ELSE Panics

CallMerge ==
    /\ pc = "call"
    /\ entry = "CharacterClass::merge"
    /\ Returns(merge_all(Head(unwrap(arg)), Tail(unwrap(arg))))

NextFront ==
    \/ CallNew
    \/ CallTokenize
    \/ CallExtract
    \/ CallMerge

SpecFront == InitFront /\ [][NextFront]_vars

(***************************************************************************)
(* Properties                                                              *)
(***************************************************************************)
count_kinds(items, ks) == Cardinality({i \in 1..Len(items) : items[i].kind \in ks})

\* The position in the input of a hunk item: its kind and own-side index.
pos_of(d) ==
    CHOOSE p \in 1..Len(diff) :
        /\ diff[p].kind = d.kind
        /\ IF d.kind = "Added" THEN diff[p].new_index = d.new_index
           ELSE diff[p].old_index = d.old_index

Min(S) == CHOOSE x \in S : \A y \in S : x <= y
Max(S) == CHOOSE x \in S : \A y \in S : x >= y

positions(h) == {pos_of(h.items[i]) : i \in 1..Len(h.items)}
change_positions(h) ==
    {pos_of(h.items[i]) : i \in {j \in 1..Len(h.items) : is_change(h.items[j])}}

\* All records from position i to position j of s are changes.
one_run(s, i, j) == \A m \in i..j : is_change(s[m])

\* C2: in every written hunk old_len is the number of its Common and Removed
\* items and new_len the number of its Common and Added items.
C2_HunkLengths ==
    \A i \in 1..Len(written) :
        /\ written[i].old_len
             = count_kinds(written[i].items, {"Common", "Removed"})
        /\ written[i].new_len
             = count_kinds(written[i].items, {"Common", "Added"})

C2_Witness ==
    /\ pc = "done"
    /\ \E i \in 1..Len(written) :
          /\ count_kinds(written[i].items, {"Common"}) > 0
          /\ count_kinds(written[i].items, {"Removed"}) > 0
          /\ count_kinds(written[i].items, {"Added"}) > 1

removes_first(items) ==
    \A i, j \in 1..Len(items) :
        (i < j /\ one_run(items, i, j))
            => ~(items[i].kind = "Added" /\ items[j].kind = "Removed")

\* A change run of the input that holds, in this order, an Added, a Removed,
\* an Added and a Removed record.
alternates(d) ==
    \E a, b, c, e \in 1..Len(d) :
        /\ a < b /\ b < c /\ c < e
        /\ one_run(d, a, e)
        /\ d[a].kind = "Added" /\ d[b].kind = "Removed"
        /\ d[c].kind = "Added" /\ d[e].kind = "Removed"

\* C3 as stated: for every input, in every written hunk and within each run
\* of consecutive non-Common items, all Removed items precede all Added ones.
C3_Original == \A i \in 1..Len(written) : removes_first(written[i].items)

\* C3 amended: the same, for every input none of whose change runs holds an
\* Added, a Removed, an Added and a Removed record in this order (the machine
\* holds back one batch of adds; a second batch flushes the first).
C3_RemovesBeforeAdds ==
    ~alternates(diff) =>
        \A i \in 1..Len(written) : removes_first(written[i].items)

\* Adds that came before their removes in the input were written after them.
C3_Witness ==
    /\ pc = "done"
    /\ ~alternates(diff)
    /\ \E p \in 1..(Len(diff) - 2) :
          /\ diff[p].kind = "Added" /\ diff[p + 1].kind = "Added"
          /\ diff[p + 2].kind = "Removed"
    /\ \E i \in 1..Len(written) :
          \E j \in 1..(Len(written[i].items) - 2) :
              /\ written[i].items[j].kind = "Removed"
              /\ written[i].items[j + 1].kind = "Added"
              /\ written[i].items[j + 2].kind = "Added"

\* What the header prints for one side: lines are the hunk's items of that
\* side, before the number of that file's lines ahead of the hunk.
header_side(indices, before) ==
    IF indices = {} THEN fmt_usize(before) \o <<",", "0">>
    ELSE fmt_usize(Min(indices) + 1)
         \o (IF Cardinality(indices) = 1 THEN <<>>
             ELSE <<",">> \o fmt_usize(Cardinality(indices)))

expected_header(h) ==
    LET olds == {unwrap(h.items[i].old_index) :
                   i \in {j \in 1..Len(h.items) : h.items[j].kind # "Added"}}
        news == {unwrap(h.items[i].new_index) :
                   i \in {j \in 1..Len(h.items) : h.items[j].kind # "Removed"}}
        first == Min(positions(h))
        old_ahead == Cardinality({q \in 1..(first - 1) : diff[q].kind # "Added"})
        new_ahead == Cardinality({q \in 1..(first - 1) : diff[q].kind # "Removed"})
    IN  <<"@", "@", " ", "-">> \o header_side(olds, old_ahead)
        \o <<" ", "+">> \o header_side(news, new_ahead)
        \o <<" ", "@", "@", NL>>

\* C4: every hunk is written under the header '@@ -A[,B] +C[,D] @@': a side
\* of length 0 prints the number of lines ahead of the hunk and ',0', a side
\* of length 1 the 1-based number of its line alone, a longer side the
\* 1-based number of its first line, ',' and its length.
C4_Header ==
    out = Flatten([i \in 1..Len(written) |->
                     expected_header(written[i])
                     \o write_items(written[i], conf, old_lines, new_lines)])

C4_Witness ==
    /\ pc = "done"
    /\ \E i, j \in 1..Len(written) :
          /\ written[i].old_len = 0 /\ written[i].old_start > 0
          /\ written[i].new_len = 1
          /\ written[j].old_len > 1

(***************************************************************************)
(* The reference unified diff (diff -U k) of old_lines and new_lines.  The *)
(* lines of the two files are pairwise distinct except for the Common      *)
(* pairs, so the reference's edit script has the same records as diff, and *)
(* lists the removes of a change run before its adds.                      *)
(***************************************************************************)
ref_same_run(p, q) == one_run(diff, Min({p, q}), Max({p, q}))

\* q is printed before p.
ref_precedes(q, p) ==
    \/ q < p /\ ~(ref_same_run(p, q) /\ diff[q].kind = "Added"
                                     /\ diff[p].kind = "Removed")
    \/ q > p /\ ref_same_run(p, q) /\ diff[q].kind = "Removed"
                                   /\ diff[p].kind = "Added"

ref_order(lo, hi) ==
    [i \in 1..(hi - lo + 1) |->
        CHOOSE p \in lo..hi :
            Cardinality({q \in lo..hi : ref_precedes(q, p)}) = i - 1]

ref_line(p) ==
    LET d == diff[p]
        prefix == IF d.kind = "Common" THEN " "
                  ELSE IF d.kind = "Removed" THEN "-" ELSE "+"
    IN  <<prefix>> \o d.data
        \o (IF Last(d.data) = NL THEN <<>>
            ELSE no_newline_marker)

ref_side(before, count) ==
    IF count = 0 THEN fmt_usize(before) \o <<",", "0">>
    ELSE IF count = 1 THEN fmt_usize(before + 1)
    ELSE fmt_usize(before + 1) \o <<",">> \o fmt_usize(count)

\* The changes that open a hunk: no change among the 2k + 1 records before.
ref_starts(k) ==
    {p \in 1..Len(diff) :
        /\ is_change(diff[p])
        /\ \A q \in 1..(p - 1) : is_change(diff[q]) => p - q - 1 > 2 * k}

\* The last change of the hunk that f opens.
ref_end(k, f) ==
    Min({l \in f..Len(diff) :
            /\ is_change(diff[l])
            /\ \A q \in (l + 1)..Len(diff) :
                  is_change(diff[q]) => q - l - 1 > 2 * k})

ref_hunk(k, f) ==
    LET lo == Max({1, f - k})
        hi == Min({Len(diff), ref_end(k, f) + k})
        order == ref_order(lo, hi)
        count(ks) == Cardinality({p \in lo..hi : diff[p].kind \in ks})
        ahead(ks) == Cardinality({p \in 1..(lo - 1) : diff[p].kind \in ks})
    IN  <<"@", "@", " ", "-">>
        \o ref_side(ahead({"Common", "Removed"}), count({"Common", "Removed"}))
        \o <<" ", "+">>
        \o ref_side(ahead({"Common", "Added"}), count({"Common", "Added"}))
        \o <<" ", "@", "@", NL>>
        \o Flatten([i \in 1..Len(order) |-> ref_line(order[i])])

RECURSIVE ref_hunks(_, _)
ref_hunks(k, starts) ==
    IF starts = {} THEN <<>>
    ELSE ref_hunk(k, Min(starts)) \o ref_hunks(k, starts \ {Min(starts)})

ref_unified(k) == ref_hunks(k, ref_starts(k))

\* The edit script lists the adds of every change run before its removes,
\* as lcs_diff does.
adds_first(d) ==
    \A i, j \in 1..Len(d) :
        (i < j /\ one_run(d, i, j))
            => ~(d[i].kind = "Removed" /\ d[j].kind = "Added")

\* C1: with no selector and context k, for every pair of old and new line
\* sequences the finished output equals the reference unified diff for the
\* same k, byte for byte.
C1_EqualsReference ==
    (pc = "done" /\ exist_differences(diff) /\ adds_first(diff))
        => out = ref_unified(conf.context)

\* The final line of a file lacks its trailing newline.
lacks_newline(lines) == lines # <<>> /\ Last(Last(lines)) # NL

occurs(sub, s) ==
    \E i \in 1..(Len(s) - Len(sub) + 1) : SubSeq(s, i, i + Len(sub) - 1) = sub

\* The final records of the last hunk are the Removed of the last old line
\* and the Added of the last new line.
final_pair ==
    /\ written # <<>>
    /\ LET items == Last(written).items
       IN  /\ Len(items) >= 2
           /\ is_change(items[Len(items) - 1]) /\ is_change(Last(items))
           /\ \E i \in 1..Len(items) :
                 /\ items[i].kind = "Removed"
                 /\ unwrap(items[i].old_index) = Len(old_lines) - 1
           /\ \E i \in 1..Len(items) :
                 /\ items[i].kind = "Added"
                 /\ unwrap(items[i].new_index) = Len(new_lines) - 1

marker_due ==
    \/ lacks_newline(old_lines) # lacks_newline(new_lines)
    \/ lacks_newline(old_lines) /\ lacks_newline(new_lines) /\ final_pair

\* C5: the no-newline marker is written iff exactly one of the two final
\* lines lacks its newline, or both lack it and the final records of the
\* hunk are a Removed/Added pair; when written it directly follows the
\* terminal record of each side whose final line lacks the newline.
C5_Marker ==
    (pc = "done" /\ exist_differences(diff) /\ adds_first(diff)) =>
        /\ occurs(no_newline_marker, out) <=> marker_due
        /\ (marker_due /\ lacks_newline(old_lines))
              => occurs(<<"-">> \o Last(old_lines) \o no_newline_marker, out)
        /\ (marker_due /\ lacks_newline(new_lines))
              => occurs(<<"+">> \o Last(new_lines) \o no_newline_marker, out)

\* The number of Common items a sequence of items begins with.
leading_commons(items) ==
    take_while_len([x \in DOMAIN items |-> is_common(items[x])])

reversed(items) == [i \in 1..Len(items) |-> items[Len(items) + 1 - i]]

\* The number of consecutive Common records of the input right before
\* position p, and right after it.
commons_before(p) == leading_commons(reversed(SubSeq(diff, 1, p - 1)))
commons_after(p) == leading_commons(SubSeq(diff, p + 1, Len(diff)))

\* C7: every written hunk begins with exactly min(context, b) Common items
\* and ends with exactly min(context, a), b the number of consecutive Common
\* records of the input right before the hunk's first change and a the
\* number right after its last change.
C7_ContextCount ==
    \A i \in 1..Len(written) :
        LET h == written[i]
            b == commons_before(Min(change_positions(h)))
            a == commons_after(Max(change_positions(h)))
        IN  /\ change_positions(h) # {}
            /\ leading_commons(h.items) = Min({conf.context, b})
            /\ leading_commons(reversed(h.items)) = Min({conf.context, a})

\* A hunk cut down to the context on both sides.
C7_Witness ==
    /\ pc = "done"
    /\ conf.context > 0
    /\ \E i \in 1..Len(written) :
          LET h == written[i]
          IN  /\ commons_before(Min(change_positions(h))) > conf.context
              /\ commons_after(Max(change_positions(h))) > conf.context
              /\ leading_commons(h.items) = conf.context
              /\ leading_commons(reversed(h.items)) = conf.context

\* The first records of the maximal runs of changes of the input.
run_starts ==
    {p \in 1..Len(diff) :
        is_change(diff[p]) /\ (p = 1 \/ is_common(diff[p - 1]))}

maximal_run(ps) ==
    /\ ps # {}
    /\ ps = Min(ps)..Max(ps)
    /\ one_run(diff, Min(ps), Max(ps))
    /\ Min(ps) \in run_starts
    /\ Max(ps) = Len(diff) \/ is_common(diff[Max(ps) + 1])

\* C8: with context 0 no written hunk holds a Common item, every written
\* hunk holds exactly the records of one maximal run of Added/Removed
\* records of the input, and there is one hunk per run.
C8_NoContext ==
    conf.context = 0 =>
        /\ \A i \in 1..Len(written) :
              /\ count_kinds(written[i].items, {"Common"}) = 0
              /\ Len(written[i].items) = Cardinality(positions(written[i]))
              /\ maximal_run(positions(written[i]))
        /\ \A i, j \in 1..Len(written) :
              i < j => Max(positions(written[i])) < Min(positions(written[j]))
        /\ pc = "done" => Len(written) = Cardinality(run_starts)

C8_Witness ==
    /\ pc = "done"
    /\ conf.context = 0
    /\ Len(written) >= 2
    /\ \E i \in 1..Len(written) :
          /\ count_kinds(written[i].items, {"Removed"}) > 0
          /\ count_kinds(written[i].items, {"Added"}) > 0

\* C9: a comparison returns 0 and writes no bytes iff the edit sequence over
\* the compared keys holds no Added or Removed record; otherwise it returns
\* 1 and at least one hunk has been written.
C9_ExitCode ==
    (pc = "done" /\ entry = "diff_files") =>
        LET changed == \E i \in 1..Len(diff) : is_change(diff[i])
        IN  /\ (ret = Some(0) /\ out = <<>>) <=> ~changed
            /\ changed => (ret = Some(1) /\ Len(written) >= 1 /\ out # <<>>)

\* Files that differ in bytes and compare equal under the selector.
C9_Witness ==
    /\ pc = "done"
    /\ entry = "diff_files"
    /\ old_lines # new_lines
    /\ ret = Some(0)
    /\ out = <<>>

LinePrefixes == {" ", "+", "-", "!", "@", "\\"}

\* C6: every line of the output (every maximal byte run ended by a newline)
\* begins with one of ' ', '+', '-', '!', '@' or '\'.
C6_LinePrefixes ==
    \A i \in 1..Len(out) :
        (/\ i = 1 \/ out[i - 1] = NL
         /\ \E j \in i..Len(out) : out[j] = NL)
            => out[i] \in LinePrefixes

\* The bytes do_write writes for item j of hunk h.
item_bytes(h, j) ==
    write_item(h.items[j], conf,
               last_nl_scan(h.items, Len(h.items), None, None,
                            old_lines, new_lines),
               old_lines, new_lines)

hunk_bytes(h) ==
    write_hunk_header(h)
    \o Flatten([j \in 1..Len(h.items) |-> item_bytes(h, j)])

\* One line: a single newline, at the end (none when neither of the two
\* lines has one).
one_line(bytes, o, n) ==
    \A j \in 1..Len(bytes) :
        bytes[j] = NL <=> (j = Len(bytes) /\ (Last(o) = NL \/ Last(n) = NL))

\* C10: the output is, hunk by hunk, the header and the items' bytes, and a
\* Common item never has a '-' or '+' prefix: byte-equal lines are written
\* as ' ' and the old line verbatim, lines that differ as one line with the
\* prefix '!' when mark_changed_context is set and ' ' otherwise.
C10_CommonLines ==
    /\ out = Flatten([i \in 1..Len(written) |-> hunk_bytes(written[i])])
    /\ \A i \in 1..Len(written) :
          \A j \in 1..Len(written[i].items) :
              LET d == written[i].items[j]
                  o == old_lines[unwrap(d.old_index) + 1]
                  n == new_lines[unwrap(d.new_index) + 1]
                  bytes == item_bytes(written[i], j)
              IN  d.kind = "Common" =>
                      /\ bytes[1] \notin {"-", "+"}
                      /\ o = n => bytes = <<" ">> \o o
                      /\ o # n =>
                            /\ bytes[1] = IF conf.mark_changed_context
                                          THEN "!" ELSE " "
                            /\ one_line(bytes, o, n)

\* Item j of hunk h is a Common record whose two lines differ.
changed_common(h, j) ==
    /\ h.items[j].kind = "Common"
    /\ old_lines[unwrap(h.items[j].old_index) + 1]
          # new_lines[unwrap(h.items[j].new_index) + 1]

\* A changed Common item as its prefix and one whole line, the old one under
\* Old and the new one under New; any other item as do_write writes it.
verbatim_item(h, j) ==
    IF changed_common(h, j)
    THEN <<IF conf.mark_changed_context THEN "!" ELSE " ">> \o
         (IF conf.context_format = "Old"
          THEN old_lines[unwrap(h.items[j].old_index) + 1]
          ELSE new_lines[unwrap(h.items[j].new_index) + 1])
    ELSE item_bytes(h, j)

\* C17: under context_format Old (New) the output holds, for each changed
\* Common item, its prefix and then the bytes of the whole old (new) line,
\* once and without any markup.
C17_OldNewVerbatim ==
    conf.context_format \in {"Old", "New"} =>
        out = Flatten([i \in 1..Len(written) |->
                 write_hunk_header(written[i]) \o
                 Flatten([j \in 1..Len(written[i].items) |->
                            verbatim_item(written[i], j)])])

\* A changed Common line of several bytes was written under New.
C17_Witness ==
    /\ pc = "done"
    /\ conf.context_format = "New"
    /\ \E i \in 1..Len(written) : \E j \in 1..Len(written[i].items) :
          /\ changed_common(written[i], j)
          /\ Len(old_lines[unwrap(written[i].items[j].old_index) + 1]) > 1

(***************************************************************************)
(* Properties of the intra-line renderers (SpecU8)                         *)
(***************************************************************************)
rendered(format) == pc = "done" /\ conf.context_format = format

\* Reading wdiff markup back: the groups of kind keep ("+" or "-") are
\* unwrapped, the groups of the other kind deleted; mode is "" outside a
\* group and the kind of the group inside one.
RECURSIVE unwdiff(_, _, _)
unwdiff(s, keep, mode) ==
    IF s = <<>> THEN <<>>
    ELSE IF mode = ""
    THEN IF Len(s) >= 2 /\ s[1] = "{" /\ s[2] \in {"+", "-"}
         THEN unwdiff(SubSeq(s, 3, Len(s)), keep, s[2])
         ELSE <<s[1]>> \o unwdiff(Tail(s), keep, "")
    ELSE IF s[1] = "}" THEN unwdiff(Tail(s), keep, "")
    ELSE (IF mode = keep THEN <<s[1]>> ELSE <<>>)
         \o unwdiff(Tail(s), keep, mode)

\* C11: wdiff round trip: deleting every '{+...}' group of the wdiff output
\* of (a, b) and unwrapping every '{-...}' group yields a; deleting every
\* '{-...}' group and unwrapping every '{+...}' group yields b.
C11_WdiffRoundTrip ==
    rendered("Wdiff") =>
        /\ unwdiff(out, "-", "") = old_lines[1]
        /\ unwdiff(out, "+", "") = new_lines[1]

C11_Witness ==
    /\ rendered("Wdiff")
    /\ occurs(<<"{", "+">>, out) /\ occurs(<<"{", "-">>, out)
    /\ old_lines[1] # <<>> /\ new_lines[1] # <<>>
    /\ old_lines[1] # new_lines[1]
    /\ \E i \in 1..Len(diff) : is_common(diff[i])

\* The number of items at the head of items that are of the kind of the
\* first one.
same_kind_run(items) ==
    take_while_len([x \in DOMAIN items |-> items[x].kind = items[1].kind])

\* Every maximal run of items of one kind, in order: Common data bare, Added
\* data between '{+' and '}', Removed data between '{-' and '}'.
RECURSIVE wdiff_groups(_)
wdiff_groups(items) ==
    IF items = <<>> THEN <<>>
    ELSE LET k == same_kind_run(items)
             data == Flatten([i \in 1..k |-> items[i].data])
         IN  (CASE items[1].kind = "Common" -> data
                [] items[1].kind = "Added" -> <<"{", "+">> \o data \o <<"}">>
                [] items[1].kind = "Removed" -> <<"{", "-">> \o data \o <<"}">>)
             \o wdiff_groups(drop(items, k))

\* C12: intra_line_write_wdiff writes each maximal run of Added items as
\* '{+' items '}', each maximal run of Removed items as '{-' items '}' and
\* Common items verbatim; a group open at the end is closed.
C12_WdiffGroups ==
    rendered("Wdiff") =>
        /\ Len(written) = 1
        /\ out = wdiff_groups(written[1].items)

\* An Added run right before a Removed run, and a group closed at the end.
C12_Witness ==
    /\ rendered("Wdiff")
    /\ occurs(<<"}", "{", "-">>, out)
    /\ occurs(<<"}", "{", "+">>, out)
    /\ Last(out) = "}"

\* The items the renderer was given: the one hunk of the nested call.
line_items == written[1].items

\* The first and the last position of the maximal change run around the
\* change at position p of line_items, and the merge of its atoms' classes.
run_first(p) ==
    Min({q \in 1..p : \A m \in q..p : is_change(line_items[m])})
run_last(p) ==
    Max({q \in p..Len(line_items) : \A m \in p..q : is_change(line_items[m])})
run_class(p) ==
    merge_run(cc_of(line_items[run_first(p)].data),
              SubSeq(line_items, run_first(p) + 1, run_last(p)))

changes_before(p) == {q \in 1..(p - 1) : is_change(line_items[q])}
changes_after(p) == {q \in (p + 1)..Len(line_items) : is_change(line_items[q])}

\* The Common atom at p is absorbed by the change run to its left: that run's
\* class accepts every atom from the run up to p (any: also for class Any).
absorbed_by_left_run(p, any) ==
    /\ changes_before(p) # {}
    /\ LET q == Max(changes_before(p))
           c == run_class(q)
       IN  /\ any \/ c # "Any"
           /\ \A m \in (q + 1)..p : accepts(c, line_items[m].data)

absorbed_by_right_run(p, any) ==
    /\ changes_after(p) # {}
    /\ LET q == Min(changes_after(p))
           c == run_class(q)
       IN  /\ any \/ c # "Any"
           /\ \A m \in p..(q - 1) : accepts(c, line_items[m].data)

kept_common(p, any) ==
    /\ is_common(line_items[p])
    /\ ~absorbed_by_left_run(p, any)
    /\ ~absorbed_by_right_run(p, any)

narrow_commons(any) ==
    Flatten([p \in 1..Len(line_items) |->
                IF kept_common(p, any) THEN line_items[p].data ELSE <<>>])

\* The output without its class tokens ('\a+', '\d+', '\s+', '\w+', '.+').
RECURSIVE strip_tokens(_)
strip_tokens(s) ==
    IF s = <<>> THEN <<>>
    ELSE IF s[1] = "\\" THEN strip_tokens(SubSeq(s, 4, Len(s)))
    ELSE IF s[1] = "." THEN strip_tokens(SubSeq(s, 3, Len(s)))
    ELSE <<s[1]>> \o strip_tokens(Tail(s))

\* C13 as stated: the Common atoms next to a change run that its class
\* accepts are absorbed for every class, Any included; every other Common
\* atom is written verbatim in input order.
C13_Original ==
    rendered("CC_Narrow") => strip_tokens(out) = narrow_commons(TRUE)

\* C13 amended: the Narrow renderer absorbs the Common atoms next to a
\* change run that its class accepts for every class except Any (a run of
\* class Any absorbs nothing); every other Common atom is written verbatim
\* in input order.
C13_NarrowAbsorbs ==
    rendered("CC_Narrow") => strip_tokens(out) = narrow_commons(FALSE)

\* Atoms absorbed on both sides of one run, another atom written.
C13_Witness ==
    /\ rendered("CC_Narrow")
    /\ \E p \in 2..(Len(line_items) - 1) :
          /\ is_change(line_items[p])
          /\ is_common(line_items[p - 1]) /\ is_common(line_items[p + 1])
          /\ absorbed_by_right_run(p - 1, FALSE)
          /\ absorbed_by_left_run(p + 1, FALSE)
    /\ \E p \in 1..Len(line_items) : kept_common(p, FALSE)

\* The class token of the run that starts at p is left out: claimed, when
\* the previous run has the same class and the Common atom before p was
\* absorbed into this run; else, when the previous run has the same class
\* and no Common atom between the two runs is written.
token_left_out(p, claimed) ==
    /\ changes_before(p) # {}
    /\ run_class(Max(changes_before(p))) = run_class(p)
    /\ IF claimed THEN absorbed_by_right_run(p - 1, FALSE)
       ELSE \A m \in (Max(changes_before(p)) + 1)..(p - 1) :
                ~kept_common(m, FALSE)

narrow_expected(claimed) ==
    Flatten([p \in 1..Len(line_items) |->
        IF is_common(line_items[p])
        THEN (IF kept_common(p, FALSE) THEN line_items[p].data ELSE <<>>)
        ELSE IF run_first(p) = p /\ ~token_left_out(p, claimed)
        THEN cc_write(run_class(p)) \o <<"+">>
        ELSE <<>>])

\* C14 as stated: the class symbol and '+' are written for each change run
\* except exactly when the previous run's class equals this run's class and
\* at least one Common atom was absorbed into this run from the left.
C14_Original ==
    rendered("CC_Narrow") => out = narrow_expected(TRUE)

\* C14 amended: the class symbol and '+' are written for each change run
\* except exactly when the previous run's class equals this run's class and
\* every Common atom between the two runs was absorbed (none is written
\* between them).
C14_NarrowToken ==
    rendered("CC_Narrow") => out = narrow_expected(FALSE)

\* A run whose token is left out: the output is shorter than the input.
C14_Witness ==
    /\ rendered("CC_Narrow")
    /\ \E p \in 1..Len(line_items) :
          /\ is_change(line_items[p]) /\ run_first(p) = p
          /\ token_left_out(p, FALSE)
    /\ Len(out) < Len(line_items)

\* The total length of the atoms of one kind among line_items[lo..hi].
RECURSIVE total_len(_, _, _)
total_len(kind, lo, hi) ==
    IF lo > hi THEN 0
    ELSE (IF line_items[lo].kind = kind THEN Len(line_items[lo].data) ELSE 0)
         + total_len(kind, lo + 1, hi)

run_added(p) == total_len("Added", run_first(p), run_last(p))
run_removed(p) == total_len("Removed", run_first(p), run_last(p))

wide_token(p) ==
    cc_write(run_class(p))
    \o (IF run_added(p) = run_removed(p)
        THEN <<"{">> \o fmt_usize(run_added(p)) \o <<"}">>
        ELSE <<"{">> \o fmt_usize(run_removed(p)) \o <<",">>
             \o fmt_usize(run_added(p)) \o <<"}">>)

\* C15: the Wide renderer writes Common atoms verbatim and each maximal
\* change run as one token: the symbol of the merge of the classes of its
\* atoms, then '{N}' when its Added atoms and its Removed atoms both have
\* total length N, '{R,A}' (R removed, A added) otherwise.
C15_WideToken ==
    rendered("CC_Wide") =>
        out = Flatten([p \in 1..Len(line_items) |->
                  IF is_common(line_items[p]) THEN line_items[p].data
                  ELSE IF run_first(p) = p THEN wide_token(p)
                  ELSE <<>>])

\* A run with as many added as removed bytes and a run with other counts.
C15_Witness ==
    /\ rendered("CC_Wide")
    /\ \E p, q \in 1..Len(line_items) :
          /\ is_change(line_items[p]) /\ is_change(line_items[q])
          /\ run_added(p) = run_removed(p)
          /\ run_added(q) # run_removed(q)
    /\ \E p \in 1..Len(line_items) : is_common(line_items[p])

(***************************************************************************)
(* Properties of the functions entered on their own (SpecFront)            *)
(***************************************************************************)
returned(function) == entry = function /\ pc # "call"

\* The variant the documentation of --context-format gives each value.
documented_format(s) ==
    CASE s = "cc" -> "CC_Narrow"
      [] s = "ccwide" -> "CC_Wide"
      [] s = "wdiff" -> "Wdiff"
      [] s = "old" -> "Old"
      [] s = "new" -> "New"

\* C16: ContextLineFormat::new returns, for every value allowed_values()
\* lists, the documented variant, and does not abort on any of them.
C16_AllowedValuesAccepted ==
    \A i \in DOMAIN allowed_values :
        (returned("ContextLineFormat::new") /\ arg = Some(allowed_values[i]))
            => /\ pc = "done"
               /\ ret = Some(documented_format(allowed_values[i]))

\* C18: for every line that ends with a newline tokenize returns, and the
\* last word it returns is the newline alone.
C18_NewlineOwnWord ==
    (returned("tokenize") /\ Last(old_lines[1]) = NL) =>
        /\ pc = "done"
        /\ unwrap(ret) # <<>>
        /\ Last(unwrap(ret)) = <<NL>>

\* C19: projecting the projection of a line gives the projection again,
\* for every line and every capture expression.
C19_SelectorIdempotent ==
    (returned("extract_re_matches") /\ pc = "done") =>
        /\ extract_re_matches_ok(unwrap(arg), unwrap(ret))
        /\ extract_re_matches(conf, unwrap(arg), unwrap(ret)) = unwrap(ret)

\* C20: the projection of every line ends with a newline.
C20_ProjectionEndsWithNewline ==
    (returned("extract_re_matches") /\ pc = "done") =>
        /\ unwrap(ret) # <<>>
        /\ Last(unwrap(ret)) = NL

(***************************************************************************)
(* Properties of the records and hunks of the line-level machine (Spec)    *)
(***************************************************************************)
\* The records the machine holds: the items of its hunk and its two queues.
held(s) ==
    (IF is_some(s.hunk) THEN unwrap(s.hunk).items ELSE <<>>)
    \o s.adds \o s.commons

\* Every item of every written hunk, then every record the machine holds.
delivered == Flatten([i \in 1..Len(written) |-> written[i].items]) \o held(state)

\* Both indices are there, and the one lcs_diff left out is the number of
\* records of the other file that precede the record in the input.
backfilled(d) ==
    /\ is_some(d.old_index)
    /\ is_some(d.new_index)
    /\ d.kind = "Added" =>
          unwrap(d.old_index)
             = Cardinality({q \in 1..(pos_of(d) - 1) : diff[q].kind # "Added"})
    /\ d.kind = "Removed" =>
          unwrap(d.new_index)
             = Cardinality({q \in 1..(pos_of(d) - 1) : diff[q].kind # "Removed"})

\* C21: every record the machine was given, whether it sits in a queue, in
\* the current hunk or in a written hunk, carries both indices: an Added
\* record the number of old-side records before it as old_index, a Removed
\* record the number of new-side records before it as new_index.
C21_IndicesBackfilled ==
    \A i \in 1..Len(delivered) : backfilled(delivered[i])

\* A written hunk holds an Added and a Removed record whose filled-in index
\* is neither 0 nor the record's own index.
C21_Witness ==
    /\ pc = "done"
    /\ \E i \in 1..Len(written) : \E a, r \in 1..Len(written[i].items) :
          LET x == written[i].items[a]
              y == written[i].items[r]
          IN  /\ x.kind = "Added" /\ y.kind = "Removed"
              /\ unwrap(x.old_index) > 0 /\ x.old_index # x.new_index
              /\ unwrap(y.new_index) > 0 /\ y.new_index # y.old_index

\* C22: in every written hunk old_start is the least old_index and
\* new_start the least new_index of its items, filled-in indices included.
C22_StartIsMinimum ==
    \A i \in 1..Len(written) :
        LET items == written[i].items
        IN  /\ written[i].old_start
                 = Min({unwrap(items[j].old_index) : j \in 1..Len(items)})
            /\ written[i].new_start
                 = Min({unwrap(items[j].new_index) : j \in 1..Len(items)})

\* A written hunk that Hunk::from_diff started from a Removed record and
\* whose least new_index came with an Added record appended later.
C22_Witness ==
    /\ pc = "done"
    /\ \E i \in 1..Len(written) :
          LET items == written[i].items
          IN  /\ items[1].kind = "Removed"
              /\ unwrap(items[1].new_index) > written[i].new_start
              /\ written[i].old_start > 0

\* C23: on a non-empty edit sequence with well-formed indices (every input
\* of this specification) display_diff_hunked never aborts: no assertion
\* of update_indices fails, every record Hunk::from_diff may be given has
\* both indices, every item the renderer is given has the index it prints,
\* and the machine without context is never in a CollectingCommons state.
C23_NoAbort ==
    diff # <<>> =>
        /\ pc # "panic"
        /\ pos < Len(diff) => update_indices_ok(diff[pos + 1], offsets)
        /\ \A i \in 1..Len(held(state)) : Hunk_from_diff_ok(held(state)[i])
        /\ \A i \in 1..Len(written) : dump_hunk_ok(Some(written[i]))
        /\ pc = "loop" => next_state_ok(conf, state)

\* Without context, a run that began with a Common record and created its
\* hunks with Hunk::from_diff has returned.
C23_Witness ==
    /\ pc = "done"
    /\ conf.context = 0
    /\ Len(written) > 1
    /\ diff[1].kind = "Common"

\* What the machine has to flush at the end of the input: the held-back
\* adds, or the Commons buffered after a change; nothing of a tail buffer.
pending(s) ==
    CASE s.tag \in {"CollectingAdds", "SequentialRemoves"} -> s.adds
      [] s.tag = "CollectingCommonsCorked" -> s.commons
      [] OTHER -> <<>>

\* C24: the step that ends the run writes the current hunk with the pending
\* adds or corked Commons appended to it (nothing when there is neither),
\* and no Common of a tail buffer is in any written hunk.
C24_FinalFlush ==
    [][(pc = "loop" /\ pc' = "done") =>
          LET kept == (IF is_some(state.hunk) THEN unwrap(state.hunk).items
                       ELSE <<>>) \o pending(state)
          IN  /\ kept = <<>> => written' = written
              /\ kept # <<>> =>
                    /\ Len(written') = Len(written) + 1
                    /\ SubSeq(written', 1, Len(written)) = written
                    /\ written'[Len(written')].items = kept
              /\ state.tag = "CollectingCommonsTail" =>
                    \A c \in 1..Len(state.commons) :
                        \A i \in 1..Len(written') :
                            \A j \in 1..Len(written'[i].items) :
                                written'[i].items[j] # state.commons[c]
    ]_vars

\* A run that ended in CollectingCommonsTail, with Commons in the buffer and
\* a hunk to write.
C24_Witness ==
    /\ pc = "done"
    /\ state.tag = "CollectingCommonsTail"
    /\ state.commons # <<>>
    /\ is_some(state.hunk)
    /\ written # <<>>

(***************************************************************************)
(* Properties of the nested byte-level call (SpecU8)                       *)
(***************************************************************************)
\* C25: with context = usize::MAX and a change in the edit sequence exactly
\* one hunk is written, and its items are the records of the sequence, each
\* of them once, with its data.
C25_OneHunkAllRecords ==
    pc = "done" =>
        /\ Len(written) = 1
        /\ Len(written[1].items) = Len(diff)
        /\ positions(written[1]) = 1..Len(diff)
        /\ \A j \in 1..Len(written[1].items) :
              written[1].items[j].data = diff[pos_of(written[1].items[j])].data

\* The sequence began and ended with Common atoms and held adds before
\* removes: the one hunk has them all.
C25_Witness ==
    /\ pc = "done"
    /\ Len(diff) = MaxAtoms
    /\ diff[1].kind = "Common"
    /\ diff[2].kind = "Added"
    /\ diff[3].kind = "Removed"
    /\ diff[4].kind = "Common"
    /\ Len(written[1].items) = MaxAtoms

(***************************************************************************)
(* Properties of CharacterClass::merge (SpecFront)                         *)
(***************************************************************************)
\* The order of the classes: Alpha and Digit below Word, White and Word
\* below Any.
below(x, y) ==
    \/ x = y
    \/ y = "Any"
    \/ x \in {"Alpha", "Digit"} /\ y = "Word"

\* The least class that every class of S lies below.
lub(S) ==
    CHOOSE u \in Classes :
        /\ \A x \in S : below(x, u)
        /\ \A v \in Classes : (\A x \in S : below(x, v)) => below(u, v)

\* C26: merge gives the least upper bound of its two classes in that order
\* (so Alpha with Digit is Word, White or Any with a different class is Any,
\* equal classes are kept), whichever comes first and however three classes
\* are grouped.
C26_MergeIsLub ==
    (returned("CharacterClass::merge") /\ pc = "done") =>
        LET ccs == unwrap(arg)
            a == ccs[1]
            b == ccs[2]
        IN  /\ unwrap(ret) = lub({ccs[i] : i \in DOMAIN ccs})
            /\ merge(a, b) = lub({a, b})
            /\ merge(a, b) = merge(b, a)
            /\ Len(ccs) > 2 =>
                  merge(merge(a, b), ccs[3]) = merge(a, merge(b, ccs[3]))

\* Alpha, Digit and White were merged, in this order: Word, then Any.
C26_Witness ==
    /\ returned("CharacterClass::merge")
    /\ pc = "done"
    /\ arg = Some(<<"Alpha", "Digit", "White">>)
    /\ ret = Some("Any")

\* The token the Narrow renderer writes for a change run of class cc.
class_token(cc) == cc_write(cc) \o <<"+">>

\* s holds sub from its position i on.
has_at(s, sub, i) ==
    /\ i + Len(sub) - 1 <= Len(s)
    /\ SubSeq(s, i, i + Len(sub) - 1) = sub

\* C27: the Narrow renderer never writes the token of one class twice in a
\* row with nothing between the two.
C27_NoRepeatedToken ==
    rendered("CC_Narrow") =>
        \A cc \in Classes : \A i \in 1..Len(out) :
            ~has_at(out, class_token(cc) \o class_token(cc), i)

\* Two change runs of class Digit around a Common digit: one token.
C27_Witness ==
    /\ rendered("CC_Narrow")
    /\ Len(diff) = 3
    /\ is_change(diff[1]) /\ is_common(diff[2]) /\ is_change(diff[3])
    /\ out = class_token("Digit")

(***************************************************************************)
(* Termination and nesting of a comparison under a selector (SpecSelLive)  *)
(***************************************************************************)
\* The Common items written so far whose old and new line differ.
changed_commons_written ==
    Sum([i \in 1..Len(written) |->
           Cardinality({j \in 1..Len(written[i].items) :
                           changed_common(written[i], j)})])

\* C28: every run ends, display_diff_hunked is entered once from outside,
\* once more for each changed Common line that is written and for nothing
\* else, and never from within the byte-level writer: two levels at most.
C28_TerminatesDepthTwo ==
    /\ [][Advance]_vars
    /\ <>(pc \in {"done", "panic"})
    /\ [](/\ calls[1] <= 1
          /\ calls[2] = changed_commons_written
          /\ calls[3] = 0)

\* A run that made a nested call, and wrote an unchanged Common line
\* without one, has ended.
C28_Witness ==
    /\ pc = "done"
    /\ calls[1] = 1
    /\ calls[2] = 1
    /\ \E i \in 1..Len(written) : \E j \in 1..Len(written[i].items) :
          /\ written[i].items[j].kind = "Common"
          /\ ~changed_common(written[i], j)

(***************************************************************************)
(* Properties of the hunks of a finished comparison (Spec)                 *)
(***************************************************************************)
\* The written hunks that hold the record at position p of the input.
hunks_with(p) == {i \in 1..Len(written) : p \in positions(written[i])}

\* r and s are changes with Common records only, if any, between them.
adjacent(r, s) ==
    /\ r < s
    /\ is_change(diff[r]) /\ is_change(diff[s])
    /\ \A m \in (r + 1)..(s - 1) : diff[m].kind = "Common"

\* No run of Common records between p and q is longer than 2k.
narrow_gaps(p, q, k) ==
    \A r, s \in p..q : adjacent(r, s) => s - r - 1 <= 2 * k

\* C29: with context k >= 1, two changes are in the same hunk iff every run
\* of Common records between them has at most 2k records; then the hunk
\* holds every Common between them; of a run of n > 2k Commons the first k
\* are in the hunk of the change before it, the last k in the hunk of the
\* change after it, and the n - 2k in the middle in no hunk.
C29_HunksSplitAtWideGaps ==
    (pc = "done" /\ conf.context >= 1) =>
        LET k == conf.context
            changes == {p \in 1..Len(diff) : is_change(diff[p])}
        IN  /\ \A p, q \in changes :
                  p < q =>
                     /\ (hunks_with(p) \cap hunks_with(q) # {})
                           <=> narrow_gaps(p, q, k)
                     /\ narrow_gaps(p, q, k) =>
                           \A m \in p..q : hunks_with(m) = hunks_with(p)
            /\ \A r, s \in changes :
                  (adjacent(r, s) /\ s - r - 1 > 2 * k) =>
                     /\ hunks_with(r) # {} /\ hunks_with(s) # {}
                     /\ \A m \in (r + 1)..(s - 1) :
                           hunks_with(m) =
                              IF m <= r + k THEN hunks_with(r)
                              ELSE IF m >= s - k THEN hunks_with(s)
                              ELSE {}

\* A finished comparison with two changes and more than 2k Commons between
\* them, written as two hunks.
C29_Witness ==
    /\ pc = "done"
    /\ conf.context >= 1
    /\ Len(written) = 2
    /\ \E r, s \in 1..Len(diff) :
          adjacent(r, s) /\ s - r - 1 > 2 * conf.context


\* How often the record at position p of the input has been written.
times_written(p) ==
    Sum([i \in 1..Len(written) |->
           Cardinality({j \in 1..Len(written[i].items) :
                           pos_of(written[i].items[j]) = p})])

\* C30: no record is ever written twice and no hunk is written twice or
\* without items; when the comparison is finished every Added and every
\* Removed record has been written, in one hunk.
C30_EachRecordOnce ==
    /\ \A p \in 1..Len(diff) : times_written(p) <= 1
    /\ \A i \in 1..Len(written) :
          /\ written[i].items # <<>>
          /\ \A j \in 1..Len(written) : written[i] = written[j] => i = j
    /\ pc = "done" =>
          \A p \in 1..Len(diff) : is_change(diff[p]) => times_written(p) = 1

\* A finished comparison whose only hunk was flushed early, on a Common in
\* CollectingCommonsTail, with Commons and then the end of the input after
\* it.
C30_Witness ==
    /\ pc = "done"
    /\ conf.context = 1
    /\ Len(diff) = 5
    /\ is_change(diff[1])
    /\ \A p \in 2..5 : diff[p].kind = "Common"
    /\ Len(written) = 1
    /\ state.tag = "CollectingCommonsTail"
    /\ state.hunk = None


(***************************************************************************)
(* Properties of the written hunks, in every state of a comparison (Spec)  *)
(***************************************************************************)
\* The items of a hunk that are lines of the old file, of the new file.
old_side(h) == {j \in 1..Len(h.items) : h.items[j].kind \in {"Common", "Removed"}}
new_side(h) == {j \in 1..Len(h.items) : h.items[j].kind \in {"Common", "Added"}}

\* C31: in every written hunk the Common and Removed items are in strictly
\* increasing old_index order and their indices are exactly old_start ..
\* old_start + old_len - 1; the Common and Added items are in strictly
\* increasing new_index order with indices new_start .. new_start + new_len - 1.
C31_SidesContiguous ==
    \A i \in 1..Len(written) :
        LET h == written[i]
            o(j) == unwrap(h.items[j].old_index)
            n(j) == unwrap(h.items[j].new_index)
        IN  /\ \A j, l \in old_side(h) : j < l => o(j) < o(l)
            /\ {o(j) : j \in old_side(h)}
                  = h.old_start..(h.old_start + h.old_len - 1)
            /\ \A j, l \in new_side(h) : j < l => n(j) < n(l)
            /\ {n(j) : j \in new_side(h)}
                  = h.new_start..(h.new_start + h.new_len - 1)

\* A written hunk with two lines on each side whose adds were held back
\* behind a Removed record that came after them.
C31_Witness ==
    /\ pc = "done"
    /\ Len(diff) >= 3
    /\ diff[1].kind = "Common"
    /\ diff[2].kind = "Added"
    /\ diff[3].kind = "Removed"
    /\ \E i \in 1..Len(written) :
          /\ Cardinality(old_side(written[i])) >= 2
          /\ Cardinality(new_side(written[i])) >= 2
          /\ written[i].old_start > 0


\* C32: hunks are written in input order and never touch: each written
\* hunk starts, on both sides, at least one line after the end of the hunk
\* written before it.
C32_HunksApart ==
    \A i \in 1..(Len(written) - 1) :
        LET h == written[i]
            next == written[i + 1]
        IN  /\ next.old_start >= h.old_start + h.old_len + 1
            /\ next.new_start >= h.new_start + h.new_len + 1

\* Two hunks were written with a single Common record between them, the
\* first of them without a line of the old file.
C32_Witness ==
    /\ pc = "done"
    /\ Len(written) >= 2
    /\ written[1].old_len = 0
    /\ written[2].old_start = written[1].old_start + 1
    /\ written[2].new_start = written[1].new_start + written[1].new_len + 1


\* The lines the first n written hunks add to the file.
RECURSIVE net_growth(_)
net_growth(n) ==
    IF n = 0 THEN 0
    ELSE net_growth(n - 1) + written[n].new_len - written[n].old_len

\* C33: for every written hunk new_start - old_start is the sum of
\* new_len - old_len over the hunks written before it.
C33_StartsDrift ==
    \A i \in 1..Len(written) :
        written[i].new_start - written[i].old_start = net_growth(i - 1)

\* After a hunk that changed the number of lines, a hunk without a line of
\* the old file (context 0) or a hunk with context lines was written.
C33_Witness ==
    /\ pc = "done"
    /\ Len(written) >= 2
    /\ net_growth(1) # 0
    /\ \/ conf.context = 0 /\ written[2].old_len = 0
       \/ conf.context >= 1 /\ old_side(written[2]) \cap new_side(written[2]) # {}


\* that writes a hunk every Added record that came before the record the
\* step is given is in a written hunk: none is left in the pending adds.
C34_HunkHasChange ==
    /\ [](\A i \in 1..Len(written) :
             \E j \in 1..Len(written[i].items) : is_change(written[i].items[j]))
    /\ [][written' # written =>
             \A p \in 1..Len(diff) :
                (diff[p].kind = "Added"
                    /\ p < (IF pc' = "done" THEN Len(diff) + 1 ELSE pos'))
                   => times_written(p)' = 1]_vars

\* A hunk was written at the end of the input from pending adds alone, and
\* another on a Common record of a comparison without context.
C34_Witness ==
    /\ pc = "done"
    /\ Len(written) = 2
    /\ \A i \in 1..2 : \A j \in 1..Len(written[i].items) :
          written[i].items[j].kind = "Added"
    /\ Len(written[2].items) = 2


(***************************************************************************)
(* Properties of tokenize (SpecFront)                                      *)
(***************************************************************************)
\* C35: the words tokenize returns, joined in order, are the bytes of the
\* line, also when the last word was split to set the newline apart.
C35_TokenizeLossless ==
    (returned("tokenize") /\ pc = "done") =>
        Flatten(unwrap(ret)) = old_lines[1]


(***************************************************************************)
(* Properties of the steps of a comparison with context (Spec)             *)
(***************************************************************************)
\* The position of the last change among the first n records, 0 if none.
last_change(n) == Max({0} \cup {p \in 1..n : is_change(diff[p])})

\* C36: with context k >= 1, the step that is given a record writes a hunk
\* iff exactly 2k + 1 Common records came since the last change; the end of
\* the input writes one iff at most 2k + 1 came since; the hunk written is
\* the one that holds that change.
C36_WrittenAfterGap ==
    [][(conf.context >= 1 /\ pc = "loop" /\ pc' # "panic") =>
          LET k == conf.context
              c == last_change(pos)
              due == IF pc' = "done" THEN c > 0 /\ pos - c <= 2 * k + 1
                     ELSE c > 0 /\ pos - c = 2 * k + 1
          IN  /\ due => /\ Len(written') = Len(written) + 1
                        /\ SubSeq(written', 1, Len(written)) = written
                        /\ c \in positions(written'[Len(written')])
              /\ ~due => written' = written]_vars

\* With context 1, the record after the third Common behind a change has
\* been processed and the hunk of that change is written, before the end
\* of the input is handled.
C36_Witness ==
    /\ pc = "loop"
    /\ conf.context = 1
    /\ pos = 5
    /\ is_change(diff[1])
    /\ \A p \in 2..4 : diff[p].kind = "Common"
    /\ Len(written) = 1


(***************************************************************************)
(* Properties of display_diff_hunked called without a difference (Spec)    *)
(***************************************************************************)
\* C37: display_diff_hunked aborts on an empty edit sequence, having
\* written nothing; on a sequence of Common records only it does not abort,
\* writes nothing and returns 1.
C37_NoDifferences ==
    (entry = "display_diff_hunked" /\ pc # "display") =>
        IF diff = <<>>
        THEN pc = "panic" /\ out = <<>> /\ written = <<>> /\ ret = None
        ELSE (\A p \in 1..Len(diff) : diff[p].kind = "Common") =>
                /\ pc # "panic"
                /\ out = <<>>
                /\ written = <<>>
                /\ pc = "done" => ret = Some(1)

\* display_diff_hunked has returned from a sequence of Common records that
\* is longer than twice the context.
C37_Witness ==
    /\ entry = "display_diff_hunked"
    /\ pc = "done"
    /\ conf.context = 1
    /\ Len(diff) >= 4
    /\ \A p \in 1..Len(diff) : diff[p].kind = "Common"
    /\ ret = Some(1)


\* The queue holds the last records given to the machine, in input order.
most_recent(queue) ==
    \A i \in 1..Len(queue) : pos_of(queue[i]) = pos - Len(queue) + i

\* C38: with context k >= 1 the queue of CollectingCommonsCorked holds 1 to
\* k records; the queue of CollectingCommonsTail holds min(seen, k) records
\* with seen >= 1; both hold the most recent records, all Common, in input
\* order; the pending adds are Added records, and there is one at least in
\* CollectingAdds.
C38_QueuesBounded ==
    (conf.context >= 1 /\ pc = "loop") =>
        LET k == conf.context IN
        /\ state.tag = "CollectingCommonsCorked" =>
              /\ 1 <= Len(state.commons) /\ Len(state.commons) <= k
              /\ most_recent(state.commons)
        /\ state.tag = "CollectingCommonsTail" =>
              /\ state.seen >= 1
              /\ Len(state.commons) = Min({state.seen, k})
              /\ most_recent(state.commons)
        /\ \A i \in 1..Len(state.commons) : state.commons[i].kind = "Common"
        /\ \A i \in 1..Len(state.adds) : state.adds[i].kind = "Added"
        /\ state.tag = "CollectingAdds" => state.adds # <<>>

\* CollectingCommonsTail, with a hunk behind it, has seen more Commons than
\* the one its queue holds.
C38_Witness ==
    /\ pc = "loop"
    /\ conf.context = 1
    /\ state.tag = "CollectingCommonsTail"
    /\ state.seen = 2
    /\ Len(state.commons) = 1
    /\ is_some(state.hunk)
====
